---- MODULE Spec2Model ----
(***************************************************************************)
(* Crossword grid filler: word list, grid configuration, arc-consistency   *)
(* propagator and backtracking search, as implemented in the TypeScript    *)
(* sources (word-list.ts, grid-config.ts, dupe-index.ts,                   *)
(* arc-consistency.ts, backtracking-search.ts).                            *)
(*                                                                         *)
(* Conventions.  Ids (glyph, word, slot, cell index, crossing) are 0-based *)
(* as in the code; a JavaScript array a is a sequence and a[i] is          *)
(* At(a, i).  JavaScript `undefined` in a numeric place is Undefined (-1), *)
(* `null` is Null (-2).  A one-character string is a glyph's character;    *)
(* a word or a template row is a sequence of such characters.             *)
(***************************************************************************)
EXTENDS Integers, Sequences, FiniteSets, TLC

Undefined == -1
Null == -2

At(a, i) == a[i + 1]

SetAt(a, i, v) == [a EXCEPT ![i + 1] = v]

Indices(a) == 0 .. (Len(a) - 1)

Fill(n, v) == [i \in 1 .. n |-> v]

RECURSIVE Concat(_)
Concat(ss) == IF ss = <<>> THEN <<>> ELSE Head(ss) \o Concat(Tail(ss))

Min2(a, b) == IF a < b THEN a ELSE b

Max2(a, b) == IF a > b THEN a ELSE b

(***************************************************************************)
(* Bounds and input domains of the model.                                  *)
(***************************************************************************)
MaxWords == 3

WordPool ==
  { <<"a", "b">>, <<"c", "d">>, <<"a", "c">>, <<"b", "c">>,
    <<"b", "a">>, <<"c", "a">>, <<"a", "a">>, <<"b", "b">> }

\* The score each pool word carries in the memory source.
PoolScore(w) == IF w = <<"b", "b">> THEN 30 ELSE 50

MicroGrid == << <<".", ".">>, <<".", "#">> >>

OpenGrid == << <<".", ".">>, <<".", ".">> >>

CrossPrefilled == << <<".", "c">>, <<"b", "#">> >>

RowPrefilled == << <<"A", "b">>, <<".", ".">> >>

Templates == {MicroGrid, OpenGrid, CrossPrefilled, RowPrefilled}

RECURSIVE DistinctSeqs(_, _)
DistinctSeqs(S, n) ==
  IF n = 0 THEN {<<>>}
  ELSE LET shorter == DistinctSeqs(S, n - 1)
           longest == {r \in shorter : Len(r) = n - 1}
           fresh(q) == {w \in S : \A i \in 1 .. Len(q) : q[i] # w}
       IN  shorter \cup UNION {{Append(q, w) : w \in fresh(q)} : q \in longest}

\* The `words` array of one memory source: [canonical, score] pairs.
MemorySources ==
  {[i \in 1 .. Len(q) |-> <<q[i], PoolScore(q[i])>>] : q \in DistinctSeqs(WordPool, MaxWords)}

(***************************************************************************)
(* word-list.ts                                                            *)
(***************************************************************************)
\* String.prototype.toLowerCase on the characters the model uses.
ToLowerCase(ch) ==
  CASE ch = "A" -> "a"
    [] ch = "B" -> "b"
    [] ch = "C" -> "c"
    [] ch = "D" -> "d"
    [] OTHER -> ch

\* normalizeWord: lower-case, NFC (no effect on ASCII), strip whitespace.
normalizeWord(canonical) ==
  LET lower == [i \in 1 .. Len(canonical) |-> ToLowerCase(canonical[i])]
  IN  SelectSeq(lower, LAMBDA ch : ch # " ")

MapHas(m, k) == k \in DOMAIN m

MapSet(m, k, v) == [x \in (DOMAIN m) \cup {k} |-> IF x = k THEN v ELSE m[x]]

(***************************************************************************)
(* dupe-index.ts.  A GlobalWordId is an array [length, wordId]; a Map or   *)
(* includes/indexOf compares arrays by identity, so the model gives every  *)
(* array a ref that tells it from other arrays of the same value.  A Map   *)
(* keyed by arrays is the sequence of its [key, value] entries; arrays     *)
(* holds the number of arrays made so far, the ref of the next one.        *)
(***************************************************************************)
\* new DupeIndex(windowSize)
NewDupeIndex(windowSize) ==
  [windowSize |-> windowSize,
   groups |-> <<>>,
   extraDupesByWord |-> <<>>,
   groupKeysByWord |-> <<>>,
   groupKeyBySubstring |-> << >>,
   arrays |-> 0]

\* An array [length, wordId] the caller has just built.
NewArray(dupeIndex, value) == [ref |-> dupeIndex.arrays, value |-> value]

\* Map.get by an array key: the position of the entry with that very
\* array, 0 when there is none.
EntryOf(entries, array) ==
  IF \E n \in 1 .. Len(entries) : entries[n].key.ref = array.ref
  THEN CHOOSE n \in 1 .. Len(entries) : entries[n].key.ref = array.ref
  ELSE 0

\* The loop of DupeIndex.addWord over the windows from position i on.
RECURSIVE AddWindows(_, _, _, _, _)
AddWindows(dupeIndex, globalWordId, glyphs, i, groupKeys) ==
  IF i > Len(glyphs) - dupeIndex.windowSize
  THEN [dupeIndex EXCEPT
          !.groupKeysByWord = Append(@, [key |-> globalWordId, value |-> groupKeys])]
  ELSE LET substring == SubSeq(glyphs, i + 1, i + dupeIndex.windowSize)
       IN  IF MapHas(dupeIndex.groupKeyBySubstring, substring)
           THEN LET groupKey == dupeIndex.groupKeyBySubstring[substring]
                IN  AddWindows(
                      [dupeIndex EXCEPT
                         !.groups = SetAt(@, groupKey, Append(At(@, groupKey), globalWordId))],
                      globalWordId, glyphs, i + 1, Append(groupKeys, groupKey))
           ELSE LET groupKey == Len(dupeIndex.groups)
                IN  AddWindows(
                      [dupeIndex EXCEPT
                         !.groups = Append(@, <<globalWordId>>),
                         !.groupKeyBySubstring = MapSet(@, substring, groupKey)],
                      globalWordId, glyphs, i + 1, Append(groupKeys, groupKey))

\* DupeIndex.addWord
addWord(dupeIndex, wordId, word) ==
  IF dupeIndex.windowSize = 0 THEN dupeIndex
  ELSE AddWindows([dupeIndex EXCEPT !.arrays = @ + 1],
                  NewArray(dupeIndex, <<Len(word.glyphs), wordId>>),
                  word.glyphs, 0, <<>>)

\* One pass of the loop of addDupePair, for one [fromId, toId].
AddExtraDupe(extraDupesByWord, fromId, toId) ==
  LET found == EntryOf(extraDupesByWord, fromId)
      entries == IF found = 0
                 THEN Append(extraDupesByWord, [key |-> fromId, value |-> <<>>])
                 ELSE extraDupesByWord
      n == IF found = 0 THEN Len(entries) ELSE found
      group == entries[n].value
  IN  IF \E k \in 1 .. Len(group) : group[k].ref = toId.ref
      THEN entries
      ELSE [entries EXCEPT ![n].value = Append(@, toId)]

\* DupeIndex.addDupePair; the two arrays are the caller's and count as made.
addDupePair(dupeIndex, globalWordId1, globalWordId2) ==
  [dupeIndex EXCEPT
     !.extraDupesByWord =
        AddExtraDupe(AddExtraDupe(@, globalWordId1, globalWordId2),
                     globalWordId2, globalWordId1),
     !.arrays = Max2(@, Max2(globalWordId1.ref, globalWordId2.ref) + 1)]

\* One pass of the loop of removeDupePair: group.splice(group.indexOf(toId), 1).
RemoveExtraDupe(extraDupesByWord, fromId, toId) ==
  LET found == EntryOf(extraDupesByWord, fromId)
  IN  IF found = 0 THEN extraDupesByWord
      ELSE LET group == extraDupesByWord[found].value
               hits == {k \in 1 .. Len(group) : group[k].ref = toId.ref}
           IN  IF hits = {} THEN extraDupesByWord
               ELSE LET index == CHOOSE k \in hits : \A h \in hits : k <= h
                    IN  [extraDupesByWord EXCEPT
                           ![found].value = SubSeq(group, 1, index - 1)
                                              \o SubSeq(group, index + 1, Len(group))]

\* DupeIndex.removeDupePair
removeDupePair(dupeIndex, globalWordId1, globalWordId2) ==
  [dupeIndex EXCEPT
     !.extraDupesByWord =
        RemoveExtraDupe(RemoveExtraDupe(@, globalWordId1, globalWordId2),
                        globalWordId2, globalWordId1)]

\* addDupe of getDupesByLength over a list of arrays: the Map from length
\* to the set of word ids, as its [key, value] entries in insertion order.
RECURSIVE AddDupes(_, _)
AddDupes(dupesByLength, arrays) ==
  IF arrays = <<>> THEN dupesByLength
  ELSE LET length == Head(arrays).value[1]
           wordId == Head(arrays).value[2]
           has == \E n \in 1 .. Len(dupesByLength) : dupesByLength[n].key = length
       IN  AddDupes(
             IF has
             THEN [n \in 1 .. Len(dupesByLength) |->
                     IF dupesByLength[n].key = length
                     THEN [dupesByLength[n] EXCEPT !.value = @ \cup {wordId}]
                     ELSE dupesByLength[n]]
             ELSE Append(dupesByLength, [key |-> length, value |-> {wordId}]),
             Tail(arrays))

\* DupeIndex.getDupesByLength: the queried word itself, the words of its
\* groups and its extra dupes.  groupKeysByWord and extraDupesByWord are
\* read by the array passed in, so an array of the same value that is not
\* the stored one finds neither.
getDupesByLength(dupeIndex, globalWordId) ==
  LET keysAt == EntryOf(dupeIndex.groupKeysByWord, globalWordId)
      groupKeys == IF keysAt = 0 THEN <<>> ELSE dupeIndex.groupKeysByWord[keysAt].value
      grouped == Concat([k \in 1 .. Len(groupKeys) |-> At(dupeIndex.groups, groupKeys[k])])
      extraAt == EntryOf(dupeIndex.extraDupesByWord, globalWordId)
      extraDupes == IF extraAt = 0 THEN <<>> ELSE dupeIndex.extraDupesByWord[extraAt].value
  IN  AddDupes(<<>>, <<globalWordId>> \o grouped \o extraDupes)

\* DupeIndex.getDupes(slotId, wordId): the GlobalWordId it builds is a new
\* array [slotId, wordId]; the result is a copy of getDupesByLength's map.
getDupes(dupeIndex, slotId, wordId) ==
  getDupesByLength(dupeIndex, NewArray(dupeIndex, <<slotId, wordId>>))

\* new WordList([], undefined, undefined, maxSharedSubstring): no glyphs,
\* words = [[]], an empty dupe index.
WordListWith(maxSharedSubstring) ==
  [glyphs |-> <<>>,
   glyphIdByChar |-> << >>,
   words |-> << <<>> >>,
   wordIdByString |-> << >>,
   dupeIndex |-> NewDupeIndex(maxSharedSubstring)]

\* new WordList([]): the dupe index has window 0.
NewWordList == WordListWith(0)

\* An interning that gives every character a new id, seen before or not.
RECURSIVE getGlyphIds_AlwaysNewId(_, _, _)
getGlyphIds_AlwaysNewId(wl, word, acc) ==
  IF word = <<>> THEN [wordList |-> wl, glyphs |-> acc]
  ELSE LET ch == Head(word)
           id == Len(wl.glyphs)
           wl2 == [wl EXCEPT !.glyphs = Append(@, ch),
                             !.glyphIdByChar = MapSet(@, ch, id)]
       IN  getGlyphIds_AlwaysNewId(wl2, Tail(word), Append(acc, id))

\* WordList.getGlyphIds: intern each character, in order.
RECURSIVE getGlyphIds(_, _, _)
getGlyphIds(wl, word, acc) ==
  IF word = <<>> THEN [wordList |-> wl, glyphs |-> acc]
  ELSE LET ch == Head(word)
       IN  IF MapHas(wl.glyphIdByChar, ch)
           THEN getGlyphIds(wl, Tail(word), Append(acc, wl.glyphIdByChar[ch]))
           ELSE LET id == Len(wl.glyphs)
                    wl2 == [wl EXCEPT !.glyphs = Append(@, ch),
                                      !.glyphIdByChar = MapSet(@, ch, id)]
                IN  getGlyphIds(wl2, Tail(word), Append(acc, id))

\* this.words grown with empty buckets up to index wordLength.
RECURSIVE GrowBuckets(_, _)
GrowBuckets(words, wordLength) ==
  IF Len(words) <= wordLength THEN GrowBuckets(Append(words, <<>>), wordLength)
  ELSE words

\* new Word(normalized, canonical, glyphs, score, hidden)
NewWord(normalized, canonical, glyphs, score, hidden) ==
  [normalizedString |-> normalized,
   canonicalString |-> canonical,
   glyphs |-> glyphs,
   score |-> score,
   hidden |-> hidden]

\* The push of a Word onto its length bucket and the wordIdByString entry,
\* common to replaceList and addWordSilent.
PushWord(wl0, normalized, canonical, score, hidden) ==
  LET g == getGlyphIds(wl0, normalized, <<>>)
      wl == g.wordList
      wordLength == Len(g.glyphs)
      words == GrowBuckets(wl.words, wordLength)
      wordId == Len(At(words, wordLength))
      word == NewWord(normalized, canonical, g.glyphs, score, hidden)
  IN  [wordList |-> [wl EXCEPT
                       !.words = SetAt(words, wordLength, Append(At(words, wordLength), word)),
                       !.wordIdByString = MapSet(@, normalized, wordId)],
       globalWordId |-> <<wordLength, wordId>>]

\* A load that keeps the last [canonical, score] of a repeated normalized
\* string in the place of the first.
RECURSIVE loadWordsFromSource_LastWins(_, _, _)
loadWordsFromSource_LastWins(sourceWords, index, entries) ==
  IF sourceWords = <<>> THEN entries
  ELSE LET canonical == Head(sourceWords)[1]
           score == Head(sourceWords)[2]
           normalized == normalizeWord(canonical)
           entry == [length |-> Len(normalized), normalized |-> normalized,
                     canonical |-> canonical, score |-> score]
       IN  IF Len(normalized) = 0
           THEN loadWordsFromSource_LastWins(Tail(sourceWords), index, entries)
           ELSE IF normalized \in index
                THEN loadWordsFromSource_LastWins(Tail(sourceWords), index,
                       [i \in 1 .. Len(entries) |->
                          IF entries[i].normalized = normalized THEN entry ELSE entries[i]])
                ELSE loadWordsFromSource_LastWins(Tail(sourceWords),
                       index \cup {normalized}, Append(entries, entry))

\* loadWordsFromSource, case "memory": entries in order, empty and repeated
\* normalized strings skipped.
RECURSIVE loadWordsFromSource(_, _, _)
loadWordsFromSource(sourceWords, index, entries) ==
  IF sourceWords = <<>> THEN entries
  ELSE LET canonical == Head(sourceWords)[1]
           score == Head(sourceWords)[2]
           normalized == normalizeWord(canonical)
       IN  IF Len(normalized) = 0 \/ normalized \in index
           THEN loadWordsFromSource(Tail(sourceWords), index, entries)
           ELSE loadWordsFromSource(Tail(sourceWords), index \cup {normalized},
                  Append(entries, [length |-> Len(normalized),
                                   normalized |-> normalized,
                                   canonical |-> canonical,
                                   score |-> score]))

\* The body of replaceList's loop over the raw entries of one source.
RECURSIVE AddEntries(_, _, _)
AddEntries(wl, entries, seenWords) ==
  IF entries = <<>> THEN [wordList |-> wl, seenWords |-> seenWords]
  ELSE LET rawEntry == Head(entries)
       IN  IF rawEntry.normalized \in seenWords
           THEN AddEntries(wl, Tail(entries), seenWords)
           ELSE AddEntries(
                  PushWord(wl, rawEntry.normalized, rawEntry.canonical,
                           rawEntry.score, FALSE).wordList,
                  Tail(entries), seenWords \cup {rawEntry.normalized})

\* WordList.replaceList over an ordered list of sources
\* ([enabled, words] records); no maxLength.
RECURSIVE replaceListFrom(_, _, _)
replaceListFrom(wl, sourceConfigs, seenWords) ==
  IF sourceConfigs = <<>> THEN wl
  ELSE LET source == Head(sourceConfigs)
       IN  IF ~source.enabled
           THEN replaceListFrom(wl, Tail(sourceConfigs), seenWords)
           ELSE LET r == AddEntries(wl, loadWordsFromSource(source.words, {}, <<>>),
                                    seenWords)
                IN  replaceListFrom(r.wordList, Tail(sourceConfigs), r.seenWords)

replaceList(wl, sourceConfigs) == replaceListFrom(wl, sourceConfigs, {})

\* addWordSilent: the push, then this.dupeIndex.addWord(wordId, word).
addWordSilent(wl, rawEntry, hidden) ==
  LET r == PushWord(wl, rawEntry.normalized, rawEntry.canonical, rawEntry.score, hidden)
      word == At(At(r.wordList.words, r.globalWordId[1]), r.globalWordId[2])
  IN  [r EXCEPT !.wordList.dupeIndex = addWord(@, r.globalWordId[2], word)]

addHiddenWord(wl, normalizedWord) ==
  addWordSilent(wl, [length |-> Len(normalizedWord),
                     normalized |-> normalizedWord,
                     canonical |-> normalizedWord,
                     score |-> 0], TRUE)

\* A lookup that adds a hidden word whether or not the string is known.
getWordIdOrAddHidden_AlwaysAdding(wl, normalizedWord) ==
  addHiddenWord(wl, normalizedWord)

getWordIdOrAddHidden(wl, normalizedWord) ==
  IF MapHas(wl.wordIdByString, normalizedWord)
  THEN [wordList |-> wl,
        globalWordId |-> <<Len(normalizedWord), wl.wordIdByString[normalizedWord]>>]
  ELSE addHiddenWord(wl, normalizedWord)

\* config.wordList.words[length][wordId]
WordOf(wl, length, wordId) == At(At(wl.words, length), wordId)

\* config.wordList.words[length]; empty when the bucket is absent
Bucket(wl, length) == IF length < Len(wl.words) THEN At(wl.words, length) ELSE <<>>

(***************************************************************************)
(* grid-config.ts                                                          *)
(***************************************************************************)
Across == "across"

Down == "down"

\* `undefined` in the crossings array of a SlotConfig
NoCrossing ==
  [otherSlotId |-> Undefined, otherSlotCell |-> Undefined, crossingId |-> Undefined]

IsCrossing(crossing) == crossing.otherSlotId # Undefined

\* an absent RegExp / an absent allow-set
NoPattern == [present |-> FALSE, matches |-> {}]

NoAllowed == [present |-> FALSE, ids |-> {}]

\* A scan that keeps every run it closes, one-cell runs included.
RECURSIVE ScanRow_KeepingSingleCells(_, _, _, _, _)
ScanRow_KeepingSingleCells(row, y, x, currentWordCoords, result) ==
  IF x >= Len(row) THEN result
  ELSE IF At(row, x) = "#"
       THEN ScanRow_KeepingSingleCells(row, y, x + 1, <<>>,
                    IF Len(currentWordCoords) > 0
                    THEN Append(result, currentWordCoords) ELSE result)
       ELSE ScanRow_KeepingSingleCells(row, y, x + 1,
                                       Append(currentWordCoords, <<x, y>>), result)

\* buildWords, the scan of one padded row y from column x on.
RECURSIVE ScanRow(_, _, _, _, _)
ScanRow(row, y, x, currentWordCoords, result) ==
  IF x >= Len(row) THEN result
  ELSE IF At(row, x) = "#"
       THEN ScanRow(row, y, x + 1, <<>>,
                    IF Len(currentWordCoords) > 1
                    THEN Append(result, currentWordCoords) ELSE result)
       ELSE ScanRow(row, y, x + 1, Append(currentWordCoords, <<x, y>>), result)

buildWords(grid) ==
  LET paddedRows == [y \in 1 .. Len(grid) |-> Append(grid[y], "#")]
      paddedGrid == Append(paddedRows, Fill(Len(paddedRows[1]), "#"))
  IN  Concat([y \in 1 .. Len(paddedGrid) |-> ScanRow(paddedGrid[y], y - 1, 0, <<>>, <<>>)])

generateSlotsFromTemplateString(lines) ==
  LET height == Len(lines)
      width == Len(lines[1])
      acrossWords == buildWords(lines)
      \* lines[y][x] is undefined where row y is shorter than the first row
      transposedGrid == [x \in 1 .. width |->
                           [y \in 1 .. height |->
                              IF x <= Len(lines[y]) THEN lines[y][x] ELSE "undefined"]]
      downWords == buildWords(transposedGrid)
      acrossSpecs == [k \in 1 .. Len(acrossWords) |->
                        [startCell |-> acrossWords[k][1],
                         length |-> Len(acrossWords[k]),
                         direction |-> Across]]
      \* coords.map(([y, x]) => [x, y]): swap back to (column, row)
      downSpecs == [k \in 1 .. Len(downWords) |->
                      [startCell |-> <<downWords[k][1][2], downWords[k][1][1]>>,
                       length |-> Len(downWords[k]),
                       direction |-> Down]]
  IN  acrossSpecs \o downSpecs

\* SlotConfig.cellCoords (and the same computation in generateSlotConfigs)
cellCoords(entry) ==
  [i \in 1 .. entry.length |->
     IF entry.direction = Across
     THEN <<entry.startCell[1] + (i - 1), entry.startCell[2]>>
     ELSE <<entry.startCell[1], entry.startCell[2] + (i - 1)>>]

\* cellByLoc.find(loc).entries: the (entryIndex, cellIndex) pairs lying on
\* loc, in entry order.
EntriesAt(entries, loc) ==
  Concat([e \in 1 .. Len(entries) |->
            Concat([c \in 1 .. entries[e].length |->
                      IF cellCoords(entries[e])[c] = loc
                      THEN << [entryIndex |-> e - 1, cellIndex |-> c - 1] >>
                      ELSE <<>>])])

\* A cache key that keeps the two slot ids in the order they come.
CacheKey_Unordered(entryIndex, otherSlotId) == <<entryIndex, otherSlotId>>

\* `${id1},${id2}` with id1 the smaller and id2 the larger slot id
CacheKey(entryIndex, otherSlotId) ==
  <<Min2(entryIndex, otherSlotId), Max2(entryIndex, otherSlotId)>>

\* An allocation that increments the counter before it reads it.
NewCrossingId_PreIncrement(crossingCount) == crossingCount + 1

\* crossingId = crossingCount++ : the id a cache miss allocates
NewCrossingId(crossingCount) == crossingCount

\* coords.map of the second loop of generateSlotConfigs: the crossings of
\* entry entryIndex from cell cellIndex on, carrying constraintIdCache and
\* crossingCount.
RECURSIVE BuildCrossings(_, _, _, _, _, _)
BuildCrossings(entries, entryIndex, cellIndex, cache, crossingCount, crossings) ==
  LET entry == At(entries, entryIndex)
  IN  IF cellIndex >= entry.length
      THEN [crossings |-> crossings, cache |-> cache, crossingCount |-> crossingCount]
      ELSE LET loc == At(cellCoords(entry), cellIndex)
               crossingEntries ==
                 SelectSeq(EntriesAt(entries, loc),
                           LAMBDA e : e.entryIndex # entryIndex)
           IN  IF Len(crossingEntries) = 0
               THEN BuildCrossings(entries, entryIndex, cellIndex + 1, cache,
                                   crossingCount, Append(crossings, NoCrossing))
               ELSE LET otherEntry == crossingEntries[1]
                        otherSlotId == otherEntry.entryIndex
                        cacheKey == CacheKey(entryIndex, otherSlotId)
                        hit == MapHas(cache, cacheKey)
                        crossingId ==
                          IF hit THEN cache[cacheKey] ELSE NewCrossingId(crossingCount)
                    IN  BuildCrossings(entries, entryIndex, cellIndex + 1,
                          IF hit THEN cache ELSE MapSet(cache, cacheKey, crossingId),
                          IF hit THEN crossingCount ELSE crossingCount + 1,
                          Append(crossings,
                                 [otherSlotId |-> otherSlotId,
                                  otherSlotCell |-> otherEntry.cellIndex,
                                  crossingId |-> crossingId]))

\* The second loop of generateSlotConfigs after its first n entries: the
\* slotConfigs pushed so far, constraintIdCache and crossingCount.
RECURSIVE BuildSlotConfigs(_, _)
BuildSlotConfigs(entries, n) ==
  IF n = 0
  THEN [slotConfigs |-> <<>>, cache |-> << >>, crossingCount |-> 0]
  ELSE LET done == BuildSlotConfigs(entries, n - 1)
           entryIndex == n - 1
           entry == At(entries, entryIndex)
           r == BuildCrossings(entries, entryIndex, 0, done.cache, done.crossingCount, <<>>)
       IN  [slotConfigs |-> Append(done.slotConfigs,
                                   [id |-> entryIndex,
                                    startCell |-> entry.startCell,
                                    direction |-> entry.direction,
                                    length |-> entry.length,
                                    crossings |-> r.crossings,
                                    minScoreOverride |-> Undefined,
                                    filterPattern |-> NoPattern]),
            cache |-> r.cache,
            crossingCount |-> r.crossingCount]

generateSlotConfigs(entries) ==
  LET r == BuildSlotConfigs(entries, Len(entries))
  IN  [slotConfigs |-> r.slotConfigs, crossingCount |-> r.crossingCount]

\* SlotConfig.cellFillIndices
cellFillIndices(slotConfig, gridWidth) ==
  LET coords == cellCoords(slotConfig)
  IN  [i \in 1 .. Len(coords) |-> coords[i][1] + coords[i][2] * gridWidth]

\* SlotConfig.getFill
getFill(slotConfig, fill, gridWidth) ==
  LET idxs == cellFillIndices(slotConfig, gridWidth)
  IN  [i \in 1 .. Len(idxs) |-> IF idxs[i] < Len(fill) THEN At(fill, idxs[i]) ELSE Undefined]

\* A fill test that lets every word through, whatever the filled cells hold.
MatchesFill_IgnoringFill(word, entryFill) == TRUE

\* Does word agree with every filled cell of entryFill?
MatchesFill(word, entryFill) ==
  \A cellIndex \in Indices(entryFill) :
    At(entryFill, cellIndex) = Undefined
      \/ At(entryFill, cellIndex) = At(word.glyphs, cellIndex)

\* Criteria that are enforced on every word, in the allow-set or not.
PassesCriteria_WithoutAllowSet(word, wordId, minScore, filterPattern, allowedWordIds) ==
  /\ ~(word.hidden \/ word.score < minScore)
  /\ ~(filterPattern.present /\ word.normalizedString \notin filterPattern.matches)

\* The word ids the criteria of generateSlotOptions let through.
PassesCriteria(word, wordId, minScore, filterPattern, allowedWordIds) ==
  LET enforceCriteria == ~(allowedWordIds.present /\ wordId \in allowedWordIds.ids)
  IN  enforceCriteria =>
        /\ ~(word.hidden \/ word.score < minScore)
        /\ ~(filterPattern.present /\ word.normalizedString \notin filterPattern.matches)

\* generateSlotOptions; returns the options and the word list, which gains
\* a hidden word when a complete fill spells an unknown string.
generateSlotOptions(wl, entryFill, minScore, filterPattern, allowedWordIds) ==
  LET length == Len(entryFill)
      isComplete == \A i \in 1 .. length : entryFill[i] # Undefined
  IN  IF isComplete
      THEN LET wordString == [i \in 1 .. length |-> At(wl.glyphs, entryFill[i])]
               r == getWordIdOrAddHidden(wl, wordString)
           IN  [wordList |-> r.wordList, options |-> <<r.globalWordId[2]>>]
      ELSE LET bucket == Bucket(wl, length)
               keep(wordId) ==
                 /\ PassesCriteria(At(bucket, wordId), wordId, minScore,
                                   filterPattern, allowedWordIds)
                 /\ MatchesFill(At(bucket, wordId), entryFill)
               wordIds == [i \in 1 .. Len(bucket) |-> i - 1]
           IN  [wordList |-> wl, options |-> SelectSeq(wordIds, keep)]

\* The slotOptions loop of generateGridConfigFromTemplateString.
RECURSIVE BuildSlotOptions(_, _, _, _, _, _)
BuildSlotOptions(wl, slotConfigs, fill, width, minScore, slotOptions) ==
  IF Len(slotOptions) >= Len(slotConfigs)
  THEN [wordList |-> wl, slotOptions |-> slotOptions]
  ELSE LET slot == At(slotConfigs, Len(slotOptions))
           entryFill == getFill(slot, fill, width)
           r == generateSlotOptions(
                  wl, entryFill,
                  IF slot.minScoreOverride # Undefined
                  THEN slot.minScoreOverride ELSE minScore,
                  slot.filterPattern, NoAllowed)
       IN  BuildSlotOptions(r.wordList, slotConfigs, fill, width, minScore,
                            Append(slotOptions, r.options))

generateGridConfigFromTemplateString(wl, lines, minScore) ==
  LET height == Len(lines)
      width == Len(lines[1])
      chars == Concat(lines)
      fill == [i \in 1 .. Len(chars) |->
                 IF chars[i] = "." \/ chars[i] = "#" THEN Undefined
                 ELSE IF MapHas(wl.glyphIdByChar, ToLowerCase(chars[i]))
                      THEN wl.glyphIdByChar[ToLowerCase(chars[i])]
                      ELSE Undefined]
      slotSpecs == generateSlotsFromTemplateString(lines)
      sc == generateSlotConfigs(slotSpecs)
      so == BuildSlotOptions(wl, sc.slotConfigs, fill, width, minScore, <<>>)
  IN  [wordList |-> so.wordList,
       fill |-> fill,
       slotConfigs |-> sc.slotConfigs,
       slotOptions |-> so.slotOptions,
       width |-> width,
       height |-> height,
       crossingCount |-> sc.crossingCount,
       abort |-> FALSE]

\* String.prototype.trim on a string of the characters the model uses.
RECURSIVE Trim(_)
Trim(str) ==
  IF str = <<>> THEN str
  ELSE IF Head(str) \in {" ", "\n"} THEN Trim(Tail(str))
  ELSE IF str[Len(str)] \in {" ", "\n"} THEN Trim(SubSeq(str, 1, Len(str) - 1))
  ELSE str

\* str.split("\n"), with line the characters read since the last "\n".
RECURSIVE SplitLines(_, _)
SplitLines(str, line) ==
  IF str = <<>> THEN <<line>>
  ELSE IF Head(str) = "\n" THEN <<line>> \o SplitLines(Tail(str), <<>>)
  ELSE SplitLines(Tail(str), Append(line, Head(str)))

\* line.split(";"), with part the characters read since the last ";".
RECURSIVE SplitParts(_, _)
SplitParts(line, part) ==
  IF line = <<>> THEN <<part>>
  ELSE IF Head(line) = ";" THEN <<part>> \o SplitParts(Tail(line), <<>>)
  ELSE SplitParts(Tail(line), Append(part, Head(line)))

\* The characters parseInt reads as decimal digits, by value.
DecimalDigits == <<"0", "1", "2", "3", "4", "5", "6", "7", "8", "9">>

\* The number read from the longest prefix of digits of str; nan when str
\* starts with no digit.
RECURSIVE ParseDigits(_, _, _)
ParseDigits(str, value, seen) ==
  IF str # <<>> /\ (\E d \in 1 .. 10 : DecimalDigits[d] = Head(str))
  THEN LET d == CHOOSE d \in 1 .. 10 : DecimalDigits[d] = Head(str)
       IN  ParseDigits(Tail(str), value * 10 + (d - 1), TRUE)
  ELSE [nan |-> ~seen, value |-> value]

\* parseInt(str, 10): leading whitespace skipped, an optional sign, then
\* the digits up to the first character that is not one; NaN without digits.
parseInt(str) ==
  LET s == Trim(str)
      signed == s # <<>> /\ Head(s) \in {"-", "+"}
      r == ParseDigits(IF signed THEN Tail(s) ELSE s, 0, FALSE)
  IN  IF signed /\ Head(s) = "-" THEN [r EXCEPT !.value = 0 - @] ELSE r

\* The replacement character a badly decoded file holds.
InvalidCharacter == "?"

\* parseWordListFileContents stops reading once errors holds more than this
\* many errors.
ErrorLimit == 100

\* The state of parseWordListFileContents before its first line: no entry,
\* and the index and errors its caller passes.
NewParse == [entries |-> <<>>, index |-> <<>>, errors |-> <<>>, linesRead |-> 0, returned |-> FALSE]

\* The body of the loop of parseWordListFileContents for one line, after the
\* test of errors.length.
ParseLine(parse, line) ==
  LET lineParts == SplitParts(line, <<>>)
      canonical == Trim(lineParts[1])
      normalized == normalizeWord(canonical)
      parsedScore == parseInt(Trim(lineParts[2]))
      read == [parse EXCEPT !.linesRead = @ + 1]
  IN  IF \E i \in 1 .. Len(lineParts[1]) : lineParts[1][i] = InvalidCharacter
      THEN [read EXCEPT !.errors = Append(@, <<"Invalid word", lineParts[1]>>)]
      ELSE IF Len(normalized) = 0 THEN read
      ELSE IF MapHas(parse.index, normalized) THEN read
      ELSE IF Len(lineParts) >= 2 /\ parsedScore.nan
      THEN [read EXCEPT !.errors = Append(@, <<"Invalid score", lineParts[2]>>)]
      ELSE [read EXCEPT !.index = MapSet(@, normalized, Len(parse.entries)),
                        !.entries = Append(@, [length |-> Len(normalized),
                                               normalized |-> normalized,
                                               canonical |-> canonical,
                                               score |-> IF Len(lineParts) >= 2
                                                         THEN parsedScore.value
                                                         ELSE 50])]

\* template.trim().split("\n").map((l) => l.trim())
TemplateLines(template) ==
  LET lines == SplitLines(Trim(template), <<>>)
  IN  [y \in 1 .. Len(lines) |-> Trim(lines[y])]

\* buildWords(transposedGrid) reads paddedGrid[0].length; with a first line
\* of no characters the transposed grid has no rows and the read throws a
\* TypeError.
BuildWordsThrows(lines) == Len(lines[1]) = 0

\* The loop of renderGrid over the choices: the glyphs of each chosen word
\* written over the cells of its slot.
RECURSIVE RenderChoices(_, _, _)
RenderChoices(cfg, grid, choiceList) ==
  IF choiceList = <<>> THEN grid
  ELSE LET slotConfig == At(cfg.slotConfigs, Head(choiceList).slotId)
           word == WordOf(cfg.wordList, slotConfig.length, Head(choiceList).wordId)
           idxs == cellFillIndices(slotConfig, cfg.width)
           written == [c \in 0 .. Len(grid) - 1 |->
                         IF \E i \in 1 .. Len(idxs) : idxs[i] = c
                         THEN At(cfg.wordList.glyphs,
                                 word.glyphs[CHOOSE i \in 1 .. Len(idxs) : idxs[i] = c])
                         ELSE At(grid, c)]
       IN  RenderChoices(cfg, [c \in 1 .. Len(grid) |-> written[c - 1]], Tail(choiceList))

\* renderGrid: the fill with the choices written over it, a cell that holds
\* no glyph as ".", rows joined by "\n".
renderGrid(cfg, choiceList) ==
  LET filled == [c \in 1 .. Len(cfg.fill) |->
                   IF cfg.fill[c] = Undefined THEN "undefined"
                   ELSE At(cfg.wordList.glyphs, cfg.fill[c])]
      grid == RenderChoices(cfg, filled, choiceList)
      charAt(x, y) ==
        LET c == y * cfg.width + x
        IN  IF c < Len(grid) /\ At(grid, c) # "undefined" THEN At(grid, c) ELSE "."
      row(y) == [x \in 1 .. cfg.width |-> charAt(x - 1, y)]
  IN  Concat([y \in 1 .. cfg.height |->
                IF y < cfg.height THEN Append(row(y - 1), "\n") ELSE row(y - 1)])

\* main.ts passes 40 as the minimum score.
MinScore == 40

(***************************************************************************)
(* util.ts                                                                 *)
(***************************************************************************)
\* buildGlyphCountsByCell: per cell, per glyph id, the number of options
\* having that glyph there.
buildGlyphCountsByCell(wl, length, options) ==
  [cellIndex \in 1 .. length |->
     [glyph \in 1 .. Len(wl.glyphs) |->
        Cardinality({k \in 1 .. Len(options) :
                       At(WordOf(wl, length, options[k]).glyphs, cellIndex - 1) = glyph - 1})]]

(***************************************************************************)
(* Crossing weights are doubles in the code; the model keeps them in       *)
(* fixed point, WeightScale units to 1.0, truncating.  A quotient          *)
(* count / weight (a priority) is the pair [n, w]; with w = 0 it is        *)
(* Infinity (or NaN when n = 0 too).                                       *)
(***************************************************************************)
WeightScale == 60 * 1000

WEIGHT_AGE_FACTOR == [num |-> 99, den |-> 100]

Priority(n, w) == [n |-> n, w |-> w]

IsFinite(p) == p.w > 0

\* p < q on doubles: false when p is Infinity or NaN
PriorityLess(p, q) ==
  /\ IsFinite(p)
  /\ IF IsFinite(q) THEN p.n * q.w < q.n * p.w ELSE q.n > 0

(***************************************************************************)
(* arc-consistency.ts: establishArcConsistency.  The call's state is the   *)
(* record ac: the arguments, slotStates, and result ("running", "ok" for   *)
(* undefined, "fail" with weightUpdates).  state.glyphCountsByCell, once   *)
(* set, is the array adapter.getGlyphCounts returned, i.e. the live        *)
(* slots[slotId].glyphCountsByCell itself, so the propagator's decrements  *)
(* go to glyphCounts, the live counts of all slots, carried with ac.       *)
(***************************************************************************)
\* adapter.isWordEliminated
isWordEliminated(slots, slotId, wordId) ==
  At(At(slots, slotId).eliminations, wordId) # Undefined

\* adapter.getSingleOption: the first option not in the call's elimination
\* set.
getSingleOption(cfg, slotId, eliminatedIds) ==
  LET free == SelectSeq(At(cfg.slotOptions, slotId),
                        LAMBDA wordId : \A k \in 1 .. Len(eliminatedIds) :
                                          eliminatedIds[k] # wordId)
  IN  IF Len(free) = 0 THEN Undefined ELSE free[1]

Contains(eliminatedIds, wordId) ==
  \E k \in 1 .. Len(eliminatedIds) : eliminatedIds[k] = wordId

\* The slotStates entry built at the start of a call.
NewSlotState(slotConfig, optionCount) ==
  [slotId |-> slotConfig.id,
   eliminatedIds |-> <<>>,
   blameCounts |-> Fill(slotConfig.length, 0),
   optionCount |-> optionCount,
   hasGlyphCounts |-> FALSE,
   queued |-> FALSE,
   queuedCellIdxs |-> <<>>,
   needsSingletonPropagation |-> FALSE]

\* The seeding loop over initialSlotIds.
RECURSIVE SeedSlots(_, _, _)
SeedSlots(cfg, a, initialSlotIds) ==
  IF initialSlotIds = <<>> THEN a
  ELSE LET slotId == Head(initialSlotIds)
           state == At(a.slotStates, slotId)
           crossings == At(cfg.slotConfigs, slotId).crossings
           cells == SelectSeq([i \in 1 .. Len(crossings) |-> i - 1],
                              LAMBDA i : /\ IsCrossing(At(crossings, i))
                                         /\ ~At(a.fixedSlots, At(crossings, i).otherSlotId))
       IN  IF state.optionCount = 0
           THEN [a EXCEPT !.result = "fail", !.weightUpdates = << >>]
           ELSE SeedSlots(cfg,
                  [a EXCEPT !.slotStates[slotId + 1] =
                     [state EXCEPT !.queued = TRUE,
                                   !.queuedCellIdxs = cells,
                                   !.needsSingletonPropagation = (state.optionCount = 1)]],
                  Tail(initialSlotIds))

\* establishArcConsistency up to its main loop.
BeginEstablish(cfg, liveGlyphCounts, initialOptionCounts, slotWeights, fixedSlots, evaluatingSlot) ==
  LET a0 == [initialOptionCounts |-> initialOptionCounts,
             slotWeights |-> slotWeights,
             fixedSlots |-> fixedSlots,
             evaluatingSlot |-> evaluatingSlot,
             slotStates |-> [i \in 1 .. Len(cfg.slotConfigs) |->
                               NewSlotState(cfg.slotConfigs[i], initialOptionCounts[i])],
             glyphCounts |-> liveGlyphCounts,
             result |-> "running",
             weightUpdates |-> << >>]
      initialSlotIds == IF evaluatingSlot = Undefined
                        THEN [i \in 1 .. Len(cfg.slotConfigs) |-> cfg.slotConfigs[i].id]
                        ELSE <<evaluatingSlot>>
  IN  SeedSlots(cfg, a0, initialSlotIds)

\* The weightUpdates map of a wipe-out of slotId: crossingId -> the
\* quotient blameCounts[cellIdx] / initialOptionCounts[slotId].
WipeoutWeightUpdates(cfg, a, slotId, blameCounts) ==
  LET crossings == At(cfg.slotConfigs, slotId).crossings
      ids == {At(crossings, c).crossingId : c \in {i \in Indices(crossings) : IsCrossing(At(crossings, i))}}
  IN  [id \in ids |->
         LET cellIdx == CHOOSE c \in Indices(crossings) : At(crossings, c).crossingId = id
         IN  [num |-> At(blameCounts, cellIdx),
              den |-> At(a.initialOptionCounts, slotId)]]

\* The glyph-count loop of eliminateWord from cell cellIndex on.
RECURSIVE EliminateGlyphs(_, _, _, _, _, _)
EliminateGlyphs(cfg, a, slotId, glyphs, blamedCellIdx, cellIndex) ==
  IF cellIndex >= Len(glyphs) THEN a
  ELSE LET glyph == At(glyphs, cellIndex)
           count == At(At(At(a.glyphCounts, slotId), cellIndex), glyph) - 1
           a1 == [a EXCEPT !.slotStates[slotId + 1].hasGlyphCounts = TRUE,
                           !.glyphCounts[slotId + 1][cellIndex + 1][glyph + 1] = count]
           crossing == At(At(cfg.slotConfigs, slotId).crossings, cellIndex)
           state == At(a1.slotStates, slotId)
           enqueue == /\ blamedCellIdx # cellIndex
                      /\ count = 0
                      /\ IsCrossing(crossing)
                      /\ ~At(a.fixedSlots, crossing.otherSlotId)
           a2 == IF ~enqueue THEN a1
                 ELSE [a1 EXCEPT !.slotStates[slotId + 1] =
                         [state EXCEPT
                            !.queued = TRUE,
                            !.queuedCellIdxs =
                               IF state.queued /\ Contains(state.queuedCellIdxs, cellIndex)
                               THEN state.queuedCellIdxs
                               ELSE Append(IF state.queued THEN state.queuedCellIdxs ELSE <<>>,
                                           cellIndex)]]
       IN  EliminateGlyphs(cfg, a2, slotId, glyphs, blamedCellIdx, cellIndex + 1)

\* eliminateWord(slotId, wordId, blamedCellIdx)
eliminateWord(cfg, a, slotId, wordId, blamedCellIdx) ==
  LET slotConfig == At(cfg.slotConfigs, slotId)
      state == At(a.slotStates, slotId)
      state1 == [state EXCEPT
                   !.eliminatedIds = IF Contains(@, wordId) THEN @ ELSE Append(@, wordId),
                   !.optionCount = @ - 1,
                   !.blameCounts = IF blamedCellIdx # Undefined
                                   THEN SetAt(@, blamedCellIdx, At(@, blamedCellIdx) + 1)
                                   ELSE @]
      a1 == [a EXCEPT !.slotStates[slotId + 1] = state1]
  IN  IF state1.optionCount = 0
      THEN [a1 EXCEPT !.result = "fail",
                      !.weightUpdates = WipeoutWeightUpdates(cfg, a, slotId, state1.blameCounts)]
      ELSE LET a2 == IF state1.optionCount = 1
                     THEN [a1 EXCEPT !.slotStates[slotId + 1].needsSingletonPropagation = TRUE]
                     ELSE a1
           IN  EliminateGlyphs(cfg, a2, slotId,
                               WordOf(cfg.wordList, slotConfig.length, wordId).glyphs,
                               blamedCellIdx, 0)

\* The scan for the queued slot of least optionCount / slotWeight, from
\* slot i on; minPriority starts at Infinity.
RECURSIVE ScanQueued(_, _, _, _)
ScanQueued(a, i, queuedSlotId, minPriority) ==
  IF i >= Len(a.slotStates) THEN queuedSlotId
  ELSE LET priority == Priority(At(a.slotStates, i).optionCount, At(a.slotWeights, i))
       IN  IF At(a.slotStates, i).queued /\ PriorityLess(priority, minPriority)
           THEN ScanQueued(a, i + 1, i, priority)
           ELSE ScanQueued(a, i + 1, queuedSlotId, minPriority)

\* Array.prototype.sort with the comparator weightB - weightA: a stable sort
\* by descending weight.  Insert x behind every element of weight >= its own.
RECURSIVE InsertByWeight(_, _, _)
InsertByWeight(sorted, x, weightOf) ==
  IF sorted = <<>> THEN <<x>>
  ELSE IF At(weightOf, Head(sorted)) >= At(weightOf, x)
       THEN <<Head(sorted)>> \o InsertByWeight(Tail(sorted), x, weightOf)
       ELSE <<x>> \o sorted

RECURSIVE SortByWeightDesc(_, _, _)
SortByWeightDesc(cells, sorted, weightOf) ==
  IF cells = <<>> THEN sorted
  ELSE SortByWeightDesc(Tail(cells), InsertByWeight(sorted, Head(cells), weightOf), weightOf)

\* The loop over otherSlotOptions for one queued cell, from option k on.
RECURSIVE ProcessOptions(_, _, _, _, _, _, _)
ProcessOptions(cfg, slots, a, crossingWeights, queuedSlotId, cellIdx, k) ==
  LET crossing == At(At(cfg.slotConfigs, queuedSlotId).crossings, cellIdx)
      otherSlotId == crossing.otherSlotId
      otherSlotConfig == At(cfg.slotConfigs, otherSlotId)
      otherSlotOptions == At(cfg.slotOptions, otherSlotId)
  IN  IF a.result = "fail" \/ k >= Len(otherSlotOptions) THEN a
      ELSE LET wordId == At(otherSlotOptions, k)
           IN  IF \/ isWordEliminated(slots, otherSlotId, wordId)
                  \/ Contains(At(a.slotStates, otherSlotId).eliminatedIds, wordId)
               THEN ProcessOptions(cfg, slots, a, crossingWeights, queuedSlotId, cellIdx, k + 1)
               ELSE LET word == WordOf(cfg.wordList, otherSlotConfig.length, wordId)
                        glyph == At(word.glyphs, crossing.otherSlotCell)
                        a1 == [a EXCEPT !.slotStates[queuedSlotId + 1].hasGlyphCounts = TRUE]
                        unsupported ==
                          At(At(At(a1.glyphCounts, queuedSlotId), cellIdx), glyph) = 0
                        a2 == IF unsupported
                              THEN eliminateWord(cfg, a1, otherSlotId, wordId,
                                                 crossing.otherSlotCell)
                              ELSE a1
                    IN  ProcessOptions(cfg, slots, a2, crossingWeights, queuedSlotId,
                                       cellIdx, k + 1)

\* The loop over the sorted queued cells of the picked slot.
RECURSIVE ProcessCells(_, _, _, _, _, _)
ProcessCells(cfg, slots, a, crossingWeights, queuedSlotId, cellIdxs) ==
  IF a.result = "fail" \/ cellIdxs = <<>> THEN a
  ELSE ProcessCells(cfg, slots,
         ProcessOptions(cfg, slots, a, crossingWeights, queuedSlotId, Head(cellIdxs), 0),
         crossingWeights, queuedSlotId, Tail(cellIdxs))

\* The loop over the word ids of one entry of the dupes map.
RECURSIVE EliminateDupes(_, _, _, _, _)
EliminateDupes(cfg, slots, a, otherSlotId, dupeWordIds) ==
  IF a.result = "fail" \/ dupeWordIds = {} THEN a
  ELSE LET dupeWordId == CHOOSE w \in dupeWordIds : \A v \in dupeWordIds : w <= v
           a1 == IF /\ ~isWordEliminated(slots, otherSlotId, dupeWordId)
                    /\ ~Contains(At(a.slotStates, otherSlotId).eliminatedIds, dupeWordId)
                 THEN eliminateWord(cfg, a, otherSlotId, dupeWordId, Undefined)
                 ELSE a
       IN  EliminateDupes(cfg, slots, a1, otherSlotId, dupeWordIds \ {dupeWordId})

\* The loop over the entries of the dupes map of one singleton slot.
RECURSIVE ProcessDupes(_, _, _, _)
ProcessDupes(cfg, slots, a, dupes) ==
  IF a.result = "fail" \/ dupes = <<>> THEN a
  ELSE LET otherSlotId == Head(dupes).key
           a1 == IF At(a.fixedSlots, otherSlotId) THEN a
                 ELSE EliminateDupes(cfg, slots, a, otherSlotId, Head(dupes).value)
       IN  ProcessDupes(cfg, slots, a1, Tail(dupes))

\* The loop over singletonSlots.
RECURSIVE ProcessSingletons(_, _, _, _)
ProcessSingletons(cfg, slots, a, singletonSlots) ==
  IF a.result = "fail" \/ singletonSlots = <<>> THEN a
  ELSE LET slotId == Head(singletonSlots)
           wordId == getSingleOption(cfg, slotId, At(a.slotStates, slotId).eliminatedIds)
           dupes == getDupes(cfg.wordList.dupeIndex, slotId, wordId)
       IN  ProcessSingletons(cfg, slots, ProcessDupes(cfg, slots, a, dupes),
                             Tail(singletonSlots))

\* A pass that neither takes a slot off the queue nor eliminates a word.
EstablishPass_Idle(cfg, slots, crossingWeights, a) == a

\* One pass of the while (true) loop of establishArcConsistency.
EstablishPass(cfg, slots, crossingWeights, a) ==
  LET queuedSlotId == ScanQueued(a, 0, Undefined, Priority(1, 0))
  IN  IF queuedSlotId = Undefined THEN [a EXCEPT !.result = "ok"]
      ELSE LET state == At(a.slotStates, queuedSlotId)
               crossings == At(cfg.slotConfigs, queuedSlotId).crossings
               weightOf == [c \in 1 .. Len(crossings) |->
                              IF IsCrossing(crossings[c])
                              THEN At(crossingWeights, crossings[c].crossingId)
                              ELSE 0]
               cellIdxs == SortByWeightDesc(state.queuedCellIdxs, <<>>, weightOf)
               a1 == [a EXCEPT !.slotStates[queuedSlotId + 1].queued = FALSE,
                               !.slotStates[queuedSlotId + 1].queuedCellIdxs = <<>>]
               a2 == ProcessCells(cfg, slots, a1, crossingWeights, queuedSlotId, cellIdxs)
               singletonSlots ==
                 SelectSeq([i \in 1 .. Len(a2.slotStates) |-> i - 1],
                           LAMBDA i : At(a2.slotStates, i).needsSingletonPropagation)
               a3 == [a2 EXCEPT !.slotStates =
                        [i \in 1 .. Len(a2.slotStates) |->
                           [a2.slotStates[i] EXCEPT !.needsSingletonPropagation = FALSE]]]
               a4 == ProcessSingletons(cfg, slots, a3, singletonSlots)
               quiescent == \A i \in 1 .. Len(a4.slotStates) :
                              /\ ~a4.slotStates[i].queued
                              /\ ~a4.slotStates[i].needsSingletonPropagation
           IN  IF a2.result = "fail" THEN a2
               ELSE IF a4.result = "fail" THEN a4
               ELSE IF quiescent THEN [a4 EXCEPT !.result = "ok"]
               ELSE a4

(***************************************************************************)
(* backtracking-search.ts: the live Slot and maintainArcConsistency        *)
(***************************************************************************)
ADAPTIVE_BRANCHING_THRESHOLD == [num |-> 15, den |-> 100]

INTERRUPT_FREQUENCY == 10

\* An interrupt test that looks at the state count before this iteration's
\* increment.
InterruptDue_BeforeIncrement(states) == (states - 1) % INTERRUPT_FREQUENCY = 0

\* statistics.states % INTERRUPT_FREQUENCY === 0
InterruptDue(states) == states % INTERRUPT_FREQUENCY = 0

RANDOM_WORD_WEIGHTS == <<4, 2, 1>>

RETRY_GROWTH_FACTOR == [num |-> 11, den |-> 10]

InitialMaxBacktracks == 500

\* Math.floor(maxBacktracks * RETRY_GROWTH_FACTOR) + 1
NextMaxBacktracks(limit) ==
  (limit * RETRY_GROWTH_FACTOR.num) \div RETRY_GROWTH_FACTOR.den + 1

\* `undefined` where a GlyphCountsByCell is expected
NoGlyphCounts == <<>>

\* new Slot(...) as findFill builds it for one SlotConfig
NewSlot(cfg, slotConfig) ==
  [id |-> slotConfig.id,
   length |-> slotConfig.length,
   eliminations |-> Fill(Len(Bucket(cfg.wordList, slotConfig.length)), Undefined),
   glyphCountsByCell |-> buildGlyphCountsByCell(cfg.wordList, slotConfig.length,
                                               At(cfg.slotOptions, slotConfig.id)),
   remainingOptionCount |-> Len(At(cfg.slotOptions, slotConfig.id)),
   fixedWordId |-> Undefined,
   fixedGlyphCountsByCell |-> NoGlyphCounts]

\* glyphCountsByCell with the count of each glyph of word changed by delta
\* at its cell.
AdjustGlyphCounts(counts, glyphs, delta) ==
  [cellIndex \in 1 .. Len(counts) |->
     IF cellIndex <= Len(glyphs)
     THEN [counts[cellIndex] EXCEPT ![glyphs[cellIndex] + 1] = @ + delta]
     ELSE counts[cellIndex]]

\* Slot.addElimination
addElimination(cfg, slot, wordId, blamedSlotId) ==
  [slot EXCEPT
     !.eliminations = SetAt(@, wordId, blamedSlotId),
     !.remainingOptionCount = @ - 1,
     !.glyphCountsByCell =
        AdjustGlyphCounts(@, WordOf(cfg.wordList, slot.length, wordId).glyphs, -1)]

\* Slot.removeElimination
removeElimination(cfg, slot, wordId) ==
  [slot EXCEPT
     !.eliminations = SetAt(@, wordId, Undefined),
     !.remainingOptionCount = @ + 1,
     !.glyphCountsByCell =
        AdjustGlyphCounts(@, WordOf(cfg.wordList, slot.length, wordId).glyphs, 1)]

\* Slot.chooseWord
chooseWord(cfg, slot, wordId) ==
  [slot EXCEPT
     !.fixedWordId = wordId,
     !.fixedGlyphCountsByCell = buildGlyphCountsByCell(cfg.wordList, slot.length, <<wordId>>)]

\* Slot.clearChoice
clearChoice(slot) ==
  [slot EXCEPT !.fixedWordId = Undefined, !.fixedGlyphCountsByCell = NoGlyphCounts]

NoChoice == [slotId |-> Undefined, wordId |-> Undefined]

InitialMode == [type |-> "Initial", choice |-> NoChoice, blamedSlotId |-> Undefined]

ChoiceMode(choice) == [type |-> "Choice", choice |-> choice, blamedSlotId |-> Undefined]

EliminationMode(choice, blamedSlotId) ==
  [type |-> "Elimination", choice |-> choice, blamedSlotId |-> blamedSlotId]

\* x ?? null
OrNull(x) == IF x = Undefined THEN Null ELSE x

GlyphCountsOf(ss) == [i \in 1 .. Len(ss) |-> ss[i].glyphCountsByCell]

WithGlyphCounts(ss, glyphCounts) ==
  [i \in 1 .. Len(ss) |-> [ss[i] EXCEPT !.glyphCountsByCell = glyphCounts[i]]]

\* maintainArcConsistency up to the main loop of establishArcConsistency:
\* the provisional state change, then the call's arguments and seeding.
MaintainBegin(cfg, ss, weights, m) ==
  LET ss1 == IF m.type = "Choice"
             THEN SetAt(ss, m.choice.slotId,
                        chooseWord(cfg, At(ss, m.choice.slotId), m.choice.wordId))
             ELSE IF m.type = "Elimination"
             THEN SetAt(ss, m.choice.slotId,
                        addElimination(cfg, At(ss, m.choice.slotId), m.choice.wordId,
                                       OrNull(m.blamedSlotId)))
             ELSE ss
      remainingOptionCounts ==
        [i \in 1 .. Len(ss1) |->
           IF ss1[i].fixedWordId # Undefined THEN 1 ELSE ss1[i].remainingOptionCount]
      fixedSlots == [i \in 1 .. Len(ss1) |-> remainingOptionCounts[i] = 1]
      evaluatingSlot == IF m.type = "Initial" THEN Undefined ELSE m.choice.slotId
  IN  [slots |-> ss1,
       ac |-> BeginEstablish(cfg, GlyphCountsOf(ss1), remainingOptionCounts, weights,
                             fixedSlots, evaluatingSlot)]

\* A weight update that ages the whole weight instead of its excess over 1.0.
ApplyWeightUpdates_AgingWholeWeight(weights, weightUpdates) ==
  [i \in 1 .. Len(weights) |->
     IF (i - 1) \in DOMAIN weightUpdates
     THEN (weights[i] * WEIGHT_AGE_FACTOR.num) \div WEIGHT_AGE_FACTOR.den
            + (weightUpdates[i - 1].num * WeightScale) \div weightUpdates[i - 1].den
     ELSE weights[i]]

\* crossingWeights after the loop over result.weightUpdates
ApplyWeightUpdates(weights, weightUpdates) ==
  [i \in 1 .. Len(weights) |->
     IF (i - 1) \in DOMAIN weightUpdates
     THEN WeightScale
            + ((weights[i] - WeightScale) * WEIGHT_AGE_FACTOR.num) \div WEIGHT_AGE_FACTOR.den
            + (weightUpdates[i - 1].num * WeightScale) \div weightUpdates[i - 1].den
     ELSE weights[i]]

\* The commit loop over one slot's eliminatedIds.
RECURSIVE CommitEliminations(_, _, _, _)
CommitEliminations(cfg, slot, eliminatedIds, blamedSlotId) ==
  IF eliminatedIds = <<>> THEN slot
  ELSE CommitEliminations(cfg,
         addElimination(cfg, slot, Head(eliminatedIds), OrNull(blamedSlotId)),
         Tail(eliminatedIds), blamedSlotId)

\* maintainArcConsistency from the return of establishArcConsistency on.
MaintainEnd(cfg, ss, weights, m, a) ==
  IF a.result = "fail"
  THEN [ok |-> FALSE,
        slots |-> IF m.type = "Choice"
                  THEN SetAt(ss, m.choice.slotId, clearChoice(At(ss, m.choice.slotId)))
                  ELSE IF m.type = "Elimination"
                  THEN SetAt(ss, m.choice.slotId,
                             removeElimination(cfg, At(ss, m.choice.slotId), m.choice.wordId))
                  ELSE ss,
        crossingWeights |-> ApplyWeightUpdates(weights, a.weightUpdates)]
  ELSE LET blamedSlotId == IF m.type = "Initial" THEN Undefined
                           ELSE IF m.type = "Choice" THEN m.choice.slotId
                           ELSE m.blamedSlotId
       IN  [ok |-> TRUE,
            slots |-> [i \in 1 .. Len(ss) |->
                         CommitEliminations(cfg, ss[i], a.slotStates[i].eliminatedIds,
                                            blamedSlotId)],
            crossingWeights |-> weights]

\* calculateSlotWeights
calculateSlotWeights(cfg, ss, weights) ==
  [i \in 1 .. Len(ss) |->
     LET crossings == At(cfg.slotConfigs, ss[i].id).crossings
         live == {c \in 1 .. Len(crossings) :
                    /\ IsCrossing(crossings[c])
                    /\ At(ss, crossings[c].otherSlotId).remainingOptionCount > 1}
         Sum[S \in SUBSET live] ==
           IF S = {} THEN 0
           ELSE LET c == CHOOSE x \in S : TRUE
                IN  At(weights, crossings[c].crossingId) + Sum[S \ {c}]
     IN  Sum[live]]

\* The stable sort of chooseNextSlot: insert x behind every element whose
\* priority is not greater than its own.
RECURSIVE InsertByPriority(_, _, _)
InsertByPriority(sorted, x, priorityOf) ==
  IF sorted = <<>> THEN <<x>>
  ELSE IF PriorityLess(At(priorityOf, x), At(priorityOf, Head(sorted)))
       THEN <<x>> \o sorted
       ELSE <<Head(sorted)>> \o InsertByPriority(Tail(sorted), x, priorityOf)

RECURSIVE SortByPriority(_, _, _)
SortByPriority(ids, sorted, priorityOf) ==
  IF ids = <<>> THEN sorted
  ELSE SortByPriority(Tail(ids), InsertByPriority(sorted, Head(ids), priorityOf), priorityOf)

\* a / b < c / d for a, c >= 0 and b, d > 0, by Euclid's algorithm: the
\* products a * d and c * b need not fit the integers of the checker.
RECURSIVE FractionLess(_, _, _, _)
FractionLess(a, b, c, d) ==
  IF a \div b # c \div d THEN a \div b < c \div d
  ELSE IF c % d = 0 THEN FALSE
  ELSE IF a % b = 0 THEN TRUE
  ELSE FractionLess(d, c % d, b, a % b)

\* lastSlotPriority - bestSlotPriority < ADAPTIVE_BRANCHING_THRESHOLD, that
\* is n1 / w1 - n2 / w2 < num / den with the weights in units of 1 / WeightScale.
WithinThreshold(last, best) ==
  /\ IsFinite(last)
  /\ IsFinite(best)
  /\ LET difference == last.n * best.w - best.n * last.w
     IN  \/ difference < 0
         \/ FractionLess(difference * ADAPTIVE_BRANCHING_THRESHOLD.den,
                         last.w * ADAPTIVE_BRANCHING_THRESHOLD.num,
                         best.w, WeightScale)

\* chooseNextSlot without the test of remainingOptionCount: every slot that
\* is not fixed is eligible.
chooseNextSlot_AmongUnfixed(ss, weights, last) ==
  LET eligible == SelectSeq([i \in 1 .. Len(ss) |-> i - 1],
                            LAMBDA slotId : At(ss, slotId).fixedWordId = Undefined)
      priorityOf == [i \in 1 .. Len(ss) |-> Priority(ss[i].remainingOptionCount, weights[i])]
      sortedSlotIds == SortByPriority(eligible, <<>>, priorityOf)
  IN  IF Len(eligible) = 0 THEN [slotId |-> Undefined, restricted |-> FALSE]
      ELSE [slotId |-> sortedSlotIds[1], restricted |-> FALSE]

\* chooseNextSlot; returns the slot id (Undefined when no slot is eligible)
\* and whether restrictedBranchings is incremented.  lastSlotPriority is
\* set only when the comparator meets lastSlotId, which needs two eligible
\* slots at least.
chooseNextSlot(ss, weights, last) ==
  LET eligible == SelectSeq([i \in 1 .. Len(ss) |-> i - 1],
                            LAMBDA slotId : /\ At(ss, slotId).fixedWordId = Undefined
                                            /\ At(ss, slotId).remainingOptionCount > 1)
      priorityOf == [i \in 1 .. Len(ss) |-> Priority(ss[i].remainingOptionCount, weights[i])]
      sortedSlotIds == SortByPriority(eligible, <<>>, priorityOf)
      adaptive == /\ last # Undefined
                  /\ Len(eligible) > 1
                  /\ \E k \in 1 .. Len(eligible) : eligible[k] = last
                  /\ WithinThreshold(At(priorityOf, last), At(priorityOf, sortedSlotIds[1]))
  IN  IF Len(eligible) = 0 THEN [slotId |-> Undefined, restricted |-> FALSE]
      ELSE IF adaptive THEN [slotId |-> last, restricted |-> TRUE]
      ELSE [slotId |-> sortedSlotIds[1], restricted |-> FALSE]

(***************************************************************************)
(* The state of one findFill(config, timeout) call.                        *)
(***************************************************************************)
VARIABLES
  template,        \* the rows of the grid template the config was built from
  config,          \* the GridConfig, with its wordList and abort flag
  timeout,         \* findFill's timeout argument, Undefined when absent
  now,             \* Date.now(), counted from findFill's start
  slots,           \* the live Slot objects
  crossingWeights, \* fixed-point crossing weights, by crossing id
  maxBacktracks,   \* findFill's backtrack limit of the current attempt
  retryNum,        \* findFill's retry counter
  result,          \* the value the last attempt (or findFill) returned
  statistics,      \* the attempt's Statistics
  choices,         \* the attempt's choice stack
  lastSlotId,      \* the attempt's lastSlotId
  slotWeights,     \* the slot weights of the current search step
  undoingChoice,   \* the choice the backtracking loop is eliminating
  mode,            \* the ArcConsistencyMode of the current propagation call
  ac,              \* the state of the current establishArcConsistency call
  pc,              \* "establish", "search", "backtrack" or "done"
  call             \* the last call made on the WordList or the grid-config
                   \* functions directly: its arguments and what it returned

vars == <<template, config, timeout, now, slots, crossingWeights, maxBacktracks,
          retryNum, result, statistics, choices, lastSlotId, slotWeights,
          undoingChoice, mode, ac, pc, call>>

\* The word candidates as a choice seeded from the clock would order them:
\* the free options taken from the one the time of the call points at.
wordCandidates_SeededByClock(cfg, ss, slotId) ==
  LET free == SelectSeq(At(cfg.slotOptions, slotId),
                        LAMBDA wordId : At(At(ss, slotId).eliminations, wordId) = Undefined)
      first == IF free = <<>> THEN 0 ELSE now % Len(free)
      turned == SubSeq(free, first + 1, Len(free)) \o SubSeq(free, 1, first)
  IN  SubSeq(turned, 1, Min2(Len(turned), Len(RANDOM_WORD_WEIGHTS)))

\* The word candidates of findFillForSeed: the first
\* RANDOM_WORD_WEIGHTS.length options of the slot not eliminated live.
wordCandidates(cfg, ss, slotId) ==
  LET free == SelectSeq(At(cfg.slotOptions, slotId),
                        LAMBDA wordId : At(At(ss, slotId).eliminations, wordId) = Undefined)
  IN  SubSeq(free, 1, Min2(Len(free), Len(RANDOM_WORD_WEIGHTS)))

MaxNow == 2

Timeouts == {Undefined, 1}

NewStatistics == [states |-> 0, backtracks |-> 0, restrictedBranchings |-> 0]

NoResult == [type |-> "None", choices |-> <<>>, limit |-> 0]

Outcome(type) == [type |-> type, choices |-> <<>>, limit |-> 0]

\* No establishArcConsistency call has been made.
NoCall ==
  [initialOptionCounts |-> <<>>, slotWeights |-> <<>>, fixedSlots |-> <<>>,
   evaluatingSlot |-> Undefined, slotStates |-> <<>>, glyphCounts |-> <<>>,
   result |-> "none", weightUpdates |-> << >>]

\* config.wordList.words[slotConfig.length] is undefined for some slot: the
\* slots.map callback of findFill reads .length of undefined and throws.
SlotsThrow(cfg) ==
  \E i \in 1 .. Len(cfg.slotConfigs) : cfg.slotConfigs[i].length >= Len(cfg.wordList.words)

\* No call has been made on the WordList or on grid-config directly.
NoApiCall == [op |-> "none", args |-> <<>>, returned |-> <<>>]

\* main.ts: the word list is loaded from one memory source, the GridConfig is
\* generated from the template, and findFill runs up to the main loop of the
\* Initial propagation call (or up to the TypeError that rejects its promise).
Start(tmpl, tmo, src) ==
  /\ template = tmpl
  /\ timeout = tmo
  /\ config = generateGridConfigFromTemplateString(
                replaceList(NewWordList, <<[enabled |-> TRUE, words |-> src]>>),
                template, MinScore)
  /\ call = NoApiCall
  /\ now = 0
  /\ crossingWeights = Fill(config.crossingCount, WeightScale)
  /\ IF SlotsThrow(config)
     THEN /\ slots = <<>>
          /\ slotWeights = <<>>
          /\ ac = NoCall
          /\ result = Outcome("TypeError")
          /\ pc = "done"
     ELSE LET ss == [i \in 1 .. Len(config.slotConfigs) |->
                       NewSlot(config, config.slotConfigs[i])]
              initialSlotWeights == calculateSlotWeights(config, ss, crossingWeights)
              b == MaintainBegin(config, ss, initialSlotWeights, InitialMode)
          IN  /\ slots = b.slots
              /\ slotWeights = initialSlotWeights
              /\ ac = b.ac
              /\ result = NoResult
              /\ pc = "establish"
  /\ mode = InitialMode
  /\ maxBacktracks = InitialMaxBacktracks
  /\ retryNum = 0
  /\ statistics = NewStatistics
  /\ choices = <<>>
  /\ lastSlotId = Undefined
  /\ undoingChoice = NoChoice

Init == \E tmpl \in Templates, tmo \in Timeouts, src \in MemorySources : Start(tmpl, tmo, src)

\* One pass of the main loop of establishArcConsistency.
Propagate ==
  /\ pc = "establish"
  /\ ac.result = "running"
  /\ ac' = EstablishPass(config, slots, crossingWeights, ac)
  /\ slots' = WithGlyphCounts(slots, ac'.glyphCounts)
  /\ UNCHANGED <<call, template, config, timeout, now, crossingWeights, maxBacktracks, retryNum,
                 result, statistics, choices, lastSlotId, slotWeights, undoingChoice,
                 mode, pc>>

\* The Initial call returns to findFill: HardFailure, or the first attempt,
\* whose statistics the caller of this definition supplies.
InitialReturns ==
  /\ pc = "establish"
  /\ mode.type = "Initial"
  /\ ac.result # "running"
  /\ LET r == MaintainEnd(config, slots, crossingWeights, mode, ac)
     IN  /\ slots' = r.slots
         /\ crossingWeights' = r.crossingWeights
         /\ IF r.ok
            THEN /\ pc' = "search"
                 /\ result' = result
            ELSE /\ pc' = "done"
                 /\ result' = Outcome("HardFailure")
  /\ maxBacktracks' = InitialMaxBacktracks
  /\ retryNum' = 0
  /\ choices' = <<>>
  /\ lastSlotId' = Undefined
  /\ UNCHANGED <<call, template, config, timeout, now, slotWeights, undoingChoice, mode, ac>>

\* findFillForSeed starts with its statistics all zero.
InitialReturn == InitialReturns /\ statistics' = NewStatistics

\* One iteration of the while (true) loop of findFillForSeed, up to the
\* main loop of the Choice propagation call.
SearchIteration ==
  /\ pc = "search"
  /\ LET states == statistics.states + 1
         deadline == IF timeout # Undefined /\ timeout # 0 THEN timeout ELSE Undefined
         interrupt == InterruptDue(states)
         weights == calculateSlotWeights(config, slots, crossingWeights)
         next == chooseNextSlot(slots, weights, lastSlotId)
         candidates == wordCandidates(config, slots, next.slotId)
         choice == [slotId |-> next.slotId, wordId |-> candidates[1]]
         b == MaintainBegin(config, slots, weights, ChoiceMode(choice))
         stats1 == [statistics EXCEPT !.states = states]
         stats2 == [stats1 EXCEPT !.restrictedBranchings =
                                     IF next.restricted THEN @ + 1 ELSE @]
         Return(res, stats) ==
           /\ pc' = "done"
           /\ result' = res
           /\ statistics' = stats
           /\ UNCHANGED <<slots, slotWeights, mode, ac>>
     IN  IF interrupt /\ deadline # Undefined /\ now > deadline
         THEN Return(Outcome("Timeout"), stats1)
         ELSE IF interrupt /\ config.abort
         THEN Return(Outcome("Abort"), stats1)
         ELSE IF next.slotId = Undefined
         THEN /\ pc' = "done"
              /\ result' = [type |-> "Success", choices |-> choices, limit |-> 0]
              /\ statistics' = stats2
              /\ slotWeights' = weights
              /\ UNCHANGED <<slots, mode, ac>>
         ELSE IF Len(candidates) = 0
         THEN /\ pc' = "done"
              /\ result' = Outcome("HardFailure")
              /\ statistics' = stats2
              /\ slotWeights' = weights
              /\ UNCHANGED <<slots, mode, ac>>
         ELSE /\ pc' = "establish"
              /\ mode' = ChoiceMode(choice)
              /\ slots' = b.slots
              /\ ac' = b.ac
              /\ slotWeights' = weights
              /\ statistics' = stats2
              /\ result' = result
  /\ UNCHANGED <<template, config, timeout, now, crossingWeights, maxBacktracks, retryNum,
                 choices, lastSlotId, undoingChoice>>

SearchStep == SearchIteration /\ UNCHANGED call

\* The Choice call returns: the choice is pushed, or backtracking starts.
ChoiceReturn ==
  /\ pc = "establish"
  /\ mode.type = "Choice"
  /\ ac.result # "running"
  /\ LET r == MaintainEnd(config, slots, crossingWeights, mode, ac)
     IN  /\ slots' = r.slots
         /\ crossingWeights' = r.crossingWeights
         /\ IF r.ok
            THEN /\ choices' = Append(choices, mode.choice)
                 /\ pc' = "search"
                 /\ UNCHANGED undoingChoice
            ELSE /\ undoingChoice' = mode.choice
                 /\ pc' = "backtrack"
                 /\ UNCHANGED choices
  /\ UNCHANGED <<call, template, config, timeout, now, maxBacktracks, retryNum, result,
                 statistics, lastSlotId, slotWeights, mode, ac>>

\* One iteration of the backtracking loop, up to the main loop of the
\* Elimination propagation call.
BacktrackIteration ==
  /\ pc = "backtrack"
  /\ LET blamedSlotId == IF choices = <<>> THEN Undefined
                         ELSE choices[Len(choices)].slotId
         m == EliminationMode(undoingChoice, blamedSlotId)
         b == MaintainBegin(config, slots, slotWeights, m)
     IN  /\ mode' = m
         /\ slots' = b.slots
         /\ ac' = b.ac
  /\ statistics' = [statistics EXCEPT !.backtracks = @ + 1]
  /\ pc' = "establish"
  /\ UNCHANGED <<template, config, timeout, now, crossingWeights, maxBacktracks, retryNum,
                 result, choices, lastSlotId, slotWeights, undoingChoice>>

BacktrackStep == BacktrackIteration /\ UNCHANGED call

\* The eliminations kept as they are, whatever slot they are blamed on.
ClearBlamed_KeepingAll(eliminations, slotId) == eliminations

\* slot.eliminations.map(e => e === slotId ? undefined : e)
ClearBlamed(eliminations, slotId) ==
  [k \in 1 .. Len(eliminations) |->
     IF eliminations[k] = slotId THEN Undefined ELSE eliminations[k]]

\* The Elimination call returns: back to the search loop, or the last choice
\* is popped; findFill starts a new attempt when the attempt gives up.
EliminationReturn ==
  /\ pc = "establish"
  /\ mode.type = "Elimination"
  /\ ac.result # "running"
  /\ LET r == MaintainEnd(config, slots, crossingWeights, mode, ac)
         lastChoice == choices[Len(choices)]
         cleared == [i \in 1 .. Len(r.slots) |->
                       IF r.slots[i].id = lastChoice.slotId
                       THEN clearChoice(r.slots[i])
                       ELSE IF r.slots[i].fixedWordId = Undefined
                       THEN [r.slots[i] EXCEPT
                               !.eliminations = ClearBlamed(@, lastChoice.slotId)]
                       ELSE r.slots[i]]
     IN  /\ crossingWeights' = r.crossingWeights
         /\ IF r.ok
            THEN /\ slots' = r.slots
                 /\ pc' = "search"
                 /\ UNCHANGED <<maxBacktracks, retryNum, result, statistics, choices,
                                lastSlotId, undoingChoice>>
            ELSE IF choices = <<>>
            THEN /\ slots' = r.slots
                 /\ pc' = "done"
                 /\ result' = Outcome("HardFailure")
                 /\ UNCHANGED <<maxBacktracks, retryNum, statistics, choices,
                                lastSlotId, undoingChoice>>
            ELSE IF statistics.backtracks > maxBacktracks
            THEN /\ slots' = cleared
                 /\ result' = [type |-> "ExceededBacktrackLimit",
                               choices |-> <<>>,
                               limit |-> statistics.backtracks]
                 /\ maxBacktracks' = NextMaxBacktracks(maxBacktracks)
                 /\ retryNum' = retryNum + 1
                 /\ statistics' = NewStatistics
                 /\ choices' = <<>>
                 /\ lastSlotId' = Undefined
                 /\ undoingChoice' = lastChoice
                 /\ pc' = "search"
            ELSE /\ slots' = cleared
                 /\ choices' = SubSeq(choices, 1, Len(choices) - 1)
                 /\ undoingChoice' = lastChoice
                 /\ pc' = "backtrack"
                 /\ UNCHANGED <<maxBacktracks, retryNum, result, statistics, lastSlotId>>
  /\ UNCHANGED <<call, template, config, timeout, now, slotWeights, mode, ac>>

\* The caller sets config.abort.  The flag is read only at the top of the
\* search loop, so that is where the model lets it change.
SetAbort ==
  /\ pc = "search"
  /\ ~config.abort
  /\ config' = [config EXCEPT !.abort = TRUE]
  /\ UNCHANGED <<call, template, timeout, now, slots, crossingWeights, maxBacktracks, retryNum,
                 result, statistics, choices, lastSlotId, slotWeights, undoingChoice,
                 mode, ac, pc>>

\* Time passes.  The clock is read only at the top of the search loop and
\* only when there is a deadline.
Tick ==
  /\ pc = "search"
  /\ timeout # Undefined
  /\ now < MaxNow
  /\ now' = now + 1
  /\ UNCHANGED <<call, template, config, timeout, slots, crossingWeights, maxBacktracks,
                 retryNum, result, statistics, choices, lastSlotId, slotWeights,
                 undoingChoice, mode, ac, pc>>

Next ==
  \/ Propagate
  \/ InitialReturn
  \/ SearchStep
  \/ ChoiceReturn
  \/ BacktrackStep
  \/ EliminationReturn
  \/ SetAbort
  \/ Tick

Spec == Init /\ [][Next]_vars

(***************************************************************************)
(* findFill called twice on equal inputs, without deadline and with the    *)
(* abort flag clear: the second call starts, at a later time, once the     *)
(* first has returned, and call keeps what the first returned.             *)
(***************************************************************************)
InitTwoRuns == \E tmpl \in Templates, src \in MemorySources : Start(tmpl, Undefined, src)

\* findFill(config, timeout) up to the main loop of its Initial propagation
\* call, on the config of the call that has returned.
RunAgain ==
  /\ pc = "done"
  /\ call.op = "none"
  /\ call' = [op |-> "findFill",
              args |-> <<config, timeout>>,
              returned |-> result]
  /\ now' = now + 1
  /\ crossingWeights' = Fill(config.crossingCount, WeightScale)
  /\ IF SlotsThrow(config)
     THEN /\ slots' = <<>>
          /\ slotWeights' = <<>>
          /\ ac' = NoCall
          /\ result' = Outcome("TypeError")
          /\ pc' = "done"
     ELSE LET ss == [i \in 1 .. Len(config.slotConfigs) |->
                       NewSlot(config, config.slotConfigs[i])]
              initialSlotWeights == calculateSlotWeights(config, ss, crossingWeights')
              b == MaintainBegin(config, ss, initialSlotWeights, InitialMode)
          IN  /\ slots' = b.slots
              /\ slotWeights' = initialSlotWeights
              /\ ac' = b.ac
              /\ result' = NoResult
              /\ pc' = "establish"
  /\ mode' = InitialMode
  /\ maxBacktracks' = InitialMaxBacktracks
  /\ retryNum' = 0
  /\ statistics' = NewStatistics
  /\ choices' = <<>>
  /\ lastSlotId' = Undefined
  /\ undoingChoice' = NoChoice
  /\ UNCHANGED <<template, config, timeout>>

NextTwoRuns ==
  \/ Propagate
  \/ InitialReturn
  \/ SearchStep
  \/ ChoiceReturn
  \/ BacktrackStep
  \/ EliminationReturn
  \/ RunAgain

SpecTwoRuns == InitTwoRuns /\ [][NextTwoRuns]_vars

(***************************************************************************)
(* The search with every maintainArcConsistency call of the search loops   *)
(* recorded: call holds the live slots as they were when the call began.   *)
(***************************************************************************)
InitPropagation == \E tmpl \in Templates, src \in MemorySources : Start(tmpl, Undefined, src)

\* The search iteration; when it ends in a Choice call, the call is recorded.
ChoiceCall ==
  /\ SearchIteration
  /\ call' = IF pc' = "establish"
             THEN [op |-> "maintainArcConsistency",
                   args |-> <<slots, mode'>>,
                   returned |-> <<>>]
             ELSE call

\* The backtracking iteration, with its Elimination call recorded.
EliminationCall ==
  /\ BacktrackIteration
  /\ call' = [op |-> "maintainArcConsistency",
              args |-> <<slots, mode'>>,
              returned |-> <<>>]

NextPropagation ==
  \/ Propagate
  \/ InitialReturn
  \/ ChoiceCall
  \/ ChoiceReturn
  \/ EliminationCall
  \/ EliminationReturn

SpecPropagation == InitPropagation /\ [][NextPropagation]_vars

(***************************************************************************)
(* findFill without deadline and with the abort flag clear, running on: it *)
(* is sequential code that awaits nothing but its own attempts, so a step  *)
(* that can be taken is taken.  This is WF_vars(NextPropagation) with its  *)
(* ENABLED <<NextPropagation>>_vars written out: a step that changes the   *)
(* state can be taken exactly when findFill has not returned (every step   *)
(* but a pass of establishArcConsistency changes pc, and C39 checks that   *)
(* a pass changes the state of its call).                                  *)
(***************************************************************************)
HasReturned == pc = "done"

SpecRunning ==
  /\ InitPropagation
  /\ [][NextPropagation]_vars
  /\ ([]<>HasReturned \/ []<><<NextPropagation>>_vars)

(***************************************************************************)
(* The search with every chooseNextSlot call recorded: call holds the slot *)
(* the search loop chose last.                                             *)
(***************************************************************************)
InitBranching == \E tmpl \in Templates, src \in MemorySources : Start(tmpl, Undefined, src)

\* The search iteration, with the chooseNextSlot call it makes recorded.
SlotChoice ==
  /\ SearchIteration
  /\ LET weights == calculateSlotWeights(config, slots, crossingWeights)
     IN  call' = [op |-> "chooseNextSlot",
                  args |-> <<slots, weights, lastSlotId>>,
                  returned |-> chooseNextSlot(slots, weights, lastSlotId).slotId]

NextBranching ==
  \/ Propagate
  \/ InitialReturn
  \/ SlotChoice
  \/ ChoiceReturn
  \/ BacktrackStep
  \/ EliminationReturn

SpecBranching == InitBranching /\ [][NextBranching]_vars

(***************************************************************************)
(* The search near the backtrack limit.  No grid within the bounds above   *)
(* makes an attempt count more than 500 backtracks (the grids that do have *)
(* hundreds of slots), and the counter is read only by the test            *)
(* statistics.backtracks > maxBacktracks that follows a pop.  So here the  *)
(* first attempt starts with its counter one short of the limit or at the  *)
(* limit, and every other variable as findFill sets it: the first or the   *)
(* second pop of the attempt then ends it, and findFill starts the next    *)
(* attempt with the counter at zero and the limit raised.                  *)
(***************************************************************************)
CountedBacktracks == {InitialMaxBacktracks - 1, InitialMaxBacktracks}

\* Two open 2x2 grids side by side, a column of blocks between them.
TwinGrid == << <<".", ".", "#", ".", ".">>, <<".", ".", "#", ".", ".">> >>

RestartTemplates == {OpenGrid, TwinGrid}

InitRestart ==
  \E tmpl \in RestartTemplates, src \in MemorySources : Start(tmpl, Undefined, src)

\* The Initial call returns and the first attempt starts, its backtracks
\* already counted up to the limit.
InitialReturnCounted ==
  /\ InitialReturns
  /\ \E counted \in CountedBacktracks :
       statistics' = [NewStatistics EXCEPT !.backtracks = counted]

NextRestart ==
  \/ Propagate
  \/ InitialReturnCounted
  \/ SearchStep
  \/ ChoiceReturn
  \/ BacktrackStep
  \/ EliminationReturn

SpecRestart == InitRestart /\ [][NextRestart]_vars

(***************************************************************************)
(* findFill on grids whose search runs past the interrupt points: rows of  *)
(* two-cell slots that cross nothing, so that every slot costs the search  *)
(* one state, beside the open 2x2 grid, on which it backtracks.            *)
(***************************************************************************)
InterruptRows == 7

\* InterruptRows rows of three two-cell slots each, a row of blocks between
\* two of them, so that no column holds a run of two cells.
SlotRows ==
  [k \in 1 .. 2 * InterruptRows - 1 |->
     IF k % 2 = 1 THEN <<".", ".", "#", ".", ".", "#", ".", ".">>
     ELSE Fill(8, "#")]

InterruptTemplates == {SlotRows, OpenGrid}

InterruptSources ==
  {[i \in 1 .. Len(q) |-> <<q[i], PoolScore(q[i])>>] :
     q \in { << <<"a", "b">>, <<"c", "d">> >>,
             << <<"a", "b">>, <<"b", "a">>, <<"c", "a">> >> }}

InitInterrupt ==
  \E tmpl \in InterruptTemplates, tmo \in Timeouts, src \in InterruptSources :
    Start(tmpl, tmo, src)

SpecInterrupt == InitInterrupt /\ [][Next]_vars

(***************************************************************************)
(* The retry loop of findFill by itself.  No grid within the bounds above  *)
(* makes an attempt give up (that takes more than 500 backtracks), so here *)
(* what findFillForSeed returns is an input of the loop.                   *)
(***************************************************************************)
MaxRetries == 20

\* The GridConfig of an empty grid over an empty word list.
NoConfig ==
  [wordList |-> NewWordList, fill |-> <<>>, slotConfigs |-> <<>>, slotOptions |-> <<>>,
   width |-> 0, height |-> 0, crossingCount |-> 0, abort |-> FALSE]

\* The variables of findFill's attempts as findFill first sets them, with no
\* slots.
NoSearch ==
  /\ timeout = Undefined
  /\ now = 0
  /\ slots = <<>>
  /\ crossingWeights = <<>>
  /\ maxBacktracks = InitialMaxBacktracks
  /\ retryNum = 0
  /\ result = NoResult
  /\ statistics = NewStatistics
  /\ choices = <<>>
  /\ lastSlotId = Undefined
  /\ slotWeights = <<>>
  /\ undoingChoice = NoChoice
  /\ mode = InitialMode
  /\ ac = NoCall

attemptVars == <<timeout, now, slots, crossingWeights, statistics, choices, lastSlotId,
                 slotWeights, undoingChoice, mode, ac>>

\* What an attempt with the given backtrack limit can return: it gives up
\* at the first test that finds statistics.backtracks above the limit.
AttemptResults(limit) ==
  {Outcome(type) : type \in {"Success", "Timeout", "Abort", "HardFailure"}}
    \cup {[type |-> "ExceededBacktrackLimit", choices |-> <<>>, limit |-> limit + over] :
            over \in {1, 2}}

\* findFill after the Initial call has returned true.
InitRetry ==
  /\ template = <<>>
  /\ config = NoConfig
  /\ call = NoApiCall
  /\ NoSearch
  /\ pc = "attempt"

\* One pass of the for loop of findFill: the attempt returns, and findFill
\* returns its result or raises the limit and starts the next attempt.
AttemptReturns ==
  /\ pc = "attempt"
  /\ \E r \in AttemptResults(maxBacktracks) :
       /\ result' = r
       /\ IF r.type # "ExceededBacktrackLimit"
          THEN /\ pc' = "done"
               /\ UNCHANGED <<maxBacktracks, retryNum>>
          ELSE /\ retryNum < MaxRetries
               /\ maxBacktracks' = NextMaxBacktracks(maxBacktracks)
               /\ retryNum' = retryNum + 1
               /\ pc' = "attempt"
  /\ UNCHANGED <<template, config, call>>
  /\ UNCHANGED attemptVars

SpecRetry == InitRetry /\ [][AttemptReturns]_vars

(***************************************************************************)
(* generateSlotsFromTemplateString and generateSlotConfigs called directly *)
(* on every rectangular template of blocks and empty cells up to MaxCells  *)
(* cells, and on the two templates above that hold letters.                *)
(***************************************************************************)
MaxCells == 9

Shapes == {s \in (1 .. MaxCells) \X (1 .. MaxCells) : s[1] * s[2] <= MaxCells}

GridTemplates ==
  UNION {[1 .. s[1] -> [1 .. s[2] -> {".", "#"}]] : s \in Shapes}
    \cup {CrossPrefilled, RowPrefilled}

retryVars == <<maxBacktracks, retryNum, result, pc>>

InitGrid ==
  /\ template \in GridTemplates
  /\ config = NoConfig
  /\ call = NoApiCall
  /\ NoSearch
  /\ pc = "api"

\* generateSlotsFromTemplateString(template)
GenerateSlots ==
  /\ pc = "api"
  /\ call.op = "none"
  /\ call' = [op |-> "generateSlotsFromTemplateString",
              args |-> <<template>>,
              returned |-> generateSlotsFromTemplateString(template)]
  /\ UNCHANGED <<template, config>>
  /\ UNCHANGED retryVars
  /\ UNCHANGED attemptVars

\* generateSlotConfigs(slotSpecs) on the slots just returned, as
\* generateGridConfigFromTemplateString calls it.
GenerateSlotConfigs ==
  /\ pc = "api"
  /\ call.op = "generateSlotsFromTemplateString"
  /\ call' = [op |-> "generateSlotConfigs",
              args |-> <<call.returned>>,
              returned |-> generateSlotConfigs(call.returned)]
  /\ UNCHANGED <<template, config>>
  /\ UNCHANGED retryVars
  /\ UNCHANGED attemptVars

NextGrid == GenerateSlots \/ GenerateSlotConfigs

SpecGrid == InitGrid /\ [][NextGrid]_vars

(***************************************************************************)
(* One WordList under sequences of replaceList, getWordIdOrAddHidden and   *)
(* generateSlotOptions calls.  `call` holds the last call until its caller *)
(* has read what it returned; args[1] is the WordList before the call.     *)
(***************************************************************************)
MaxEntries == 3

\* [canonical, score] pairs: two spellings of "ab" with different scores, a
\* word with whitespace, a one-letter word and a blank one.
ListPool ==
  { << <<"a", "b">>, 50 >>, << <<"A", "b">>, 30 >>, << <<"b", " ", "a">>, 50 >>,
    << <<"c">>, 50 >>, << <<" ">>, 50 >> }

SourceWords ==
  {<<>>} \cup {<<p>> : p \in ListPool} \cup {<<p, q>> : p \in ListPool, q \in ListPool}

MemorySourceConfigs == [enabled : BOOLEAN, words : SourceWords]

\* One source of up to two words, or two sources of one word each.
SourceLists ==
  {<<s>> : s \in MemorySourceConfigs}
    \cup {<<s, t>> : s \in {c \in MemorySourceConfigs : Len(c.words) = 1},
                     t \in {c \in MemorySourceConfigs : Len(c.words) = 1}}

\* The normalized strings looked up directly.
LookupStrings == {normalizeWord(p[1]) : p \in ListPool}

\* this.words.flat().length
RECURSIVE EntryCount(_)
EntryCount(words) ==
  IF words = <<>> THEN 0 ELSE Len(Head(words)) + EntryCount(Tail(words))

\* Entry fills of the lengths of the looked-up strings, each cell empty or
\* one of the word list's glyph ids.
EntryFills(wl) ==
  UNION {[1 .. Len(w) -> {Undefined} \cup Indices(wl.glyphs)] : w \in LookupStrings}

\* /^a/ on the strings of the model, and no pattern.
FilterPatterns == {NoPattern, [present |-> TRUE, matches |-> {<<"a", "b">>}]}

AllowSets == {NoAllowed, [present |-> TRUE, ids |-> {0}], [present |-> TRUE, ids |-> {1}]}

MinScores == {0, MinScore}

InitWordList ==
  /\ template = <<>>
  /\ config = NoConfig
  /\ call = NoApiCall
  /\ NoSearch
  /\ pc = "api"

\* wordList.replaceList(sourceConfigs)
ReplaceList ==
  /\ pc = "api"
  /\ call.op = "none"
  /\ \E sourceConfigs \in SourceLists :
       LET wl == replaceList(config.wordList, sourceConfigs)
       IN  /\ EntryCount(wl.words) <= MaxEntries
           /\ config' = [config EXCEPT !.wordList = wl]
           /\ call' = [op |-> "replaceList",
                       args |-> <<config.wordList, sourceConfigs>>,
                       returned |-> <<>>]
  /\ UNCHANGED template
  /\ UNCHANGED retryVars
  /\ UNCHANGED attemptVars

\* wordList.getWordIdOrAddHidden(normalizedWord)
GetWordIdOrAddHidden ==
  /\ pc = "api"
  /\ call.op = "none"
  /\ \E normalizedWord \in LookupStrings :
       LET r == getWordIdOrAddHidden(config.wordList, normalizedWord)
       IN  /\ EntryCount(r.wordList.words) <= MaxEntries
           /\ config' = [config EXCEPT !.wordList = r.wordList]
           /\ call' = [op |-> "getWordIdOrAddHidden",
                       args |-> <<config.wordList, normalizedWord>>,
                       returned |-> r.globalWordId]
  /\ UNCHANGED template
  /\ UNCHANGED retryVars
  /\ UNCHANGED attemptVars

\* generateSlotOptions(wordList, entryFill, minScore, filterPattern,
\* allowedWordIds)
GenerateSlotOptions ==
  /\ pc = "api"
  /\ call.op = "none"
  /\ \E entryFill \in EntryFills(config.wordList), minScore \in MinScores,
        filterPattern \in FilterPatterns, allowedWordIds \in AllowSets :
       LET r == generateSlotOptions(config.wordList, entryFill, minScore,
                                    filterPattern, allowedWordIds)
       IN  /\ EntryCount(r.wordList.words) <= MaxEntries
           /\ config' = [config EXCEPT !.wordList = r.wordList]
           /\ call' = [op |-> "generateSlotOptions",
                       args |-> <<config.wordList, entryFill, minScore,
                                  filterPattern, allowedWordIds>>,
                       returned |-> r.options]
  /\ UNCHANGED template
  /\ UNCHANGED retryVars
  /\ UNCHANGED attemptVars

\* The caller has read what the call returned and goes on to its next call.
CallReturned ==
  /\ pc = "api"
  /\ call.op # "none"
  /\ call' = NoApiCall
  /\ UNCHANGED <<template, config>>
  /\ UNCHANGED retryVars
  /\ UNCHANGED attemptVars

NextWordList == ReplaceList \/ GetWordIdOrAddHidden \/ GenerateSlotOptions \/ CallReturned

SpecWordList == InitWordList /\ [][NextWordList]_vars

(***************************************************************************)
(* One WordList built with maxSharedSubstring 1 or 2, under replaceList    *)
(* and getWordIdOrAddHidden calls and calls on its dupe index.  The arrays *)
(* a caller passes are arrays the index holds (its fields are public) or   *)
(* new arrays [length, wordId] naming an entry of the list.                *)
(***************************************************************************)
MaxExtraKeys == 2

InitDupes ==
  /\ template = <<>>
  /\ \E maxSharedSubstring \in {1, 2} :
       config = [NoConfig EXCEPT !.wordList = WordListWith(maxSharedSubstring)]
  /\ call = NoApiCall
  /\ NoSearch
  /\ pc = "api"

\* wordList.replaceList(sourceConfigs) with one enabled source: "ab", or
\* "ba" and "c".
ReplaceShortList ==
  /\ pc = "api"
  /\ call.op = "none"
  /\ \E words \in { << << <<"a", "b">>, 50 >> >>,
                     << << <<"b", "a">>, 50 >>, << <<"c">>, 50 >> >> } :
       LET sourceConfigs == << [enabled |-> TRUE, words |-> words] >>
           wl == replaceList(config.wordList, sourceConfigs)
       IN  /\ EntryCount(wl.words) <= MaxEntries
           /\ config' = [config EXCEPT !.wordList = wl]
           /\ call' = [op |-> "replaceList",
                       args |-> <<config.wordList, sourceConfigs>>,
                       returned |-> <<>>]
  /\ UNCHANGED template
  /\ UNCHANGED retryVars
  /\ UNCHANGED attemptVars

\* The arrays the dupe index holds.
HeldArrays(dupeIndex) ==
  LET extras == dupeIndex.extraDupesByWord
      stored == Concat(dupeIndex.groups)
                  \o [n \in 1 .. Len(extras) |-> extras[n].key]
                  \o Concat([n \in 1 .. Len(extras) |-> extras[n].value])
  IN  {stored[n] : n \in 1 .. Len(stored)}

\* The arrays a caller can pass: a held one, or the k-th array it builds
\* itself for an entry words[length][wordId].
CallerArrays(wl, k) ==
  HeldArrays(wl.dupeIndex)
    \cup UNION {{[ref |-> wl.dupeIndex.arrays + k, value |-> <<length, wordId>>] :
                   wordId \in Indices(At(wl.words, length))} :
                length \in Indices(wl.words)}

\* dupeIndex.addDupePair(globalWordId1, globalWordId2)
AddDupePair ==
  /\ pc = "api"
  /\ call.op = "none"
  /\ \E globalWordId1 \in CallerArrays(config.wordList, 0),
        globalWordId2 \in CallerArrays(config.wordList, 1) :
       LET dupeIndex == addDupePair(config.wordList.dupeIndex, globalWordId1, globalWordId2)
       IN  /\ Len(dupeIndex.extraDupesByWord) <= MaxExtraKeys
           /\ config' = [config EXCEPT !.wordList.dupeIndex = dupeIndex]
           /\ call' = [op |-> "addDupePair",
                       args |-> <<config.wordList, globalWordId1, globalWordId2>>,
                       returned |-> <<>>]
  /\ UNCHANGED template
  /\ UNCHANGED retryVars
  /\ UNCHANGED attemptVars

\* dupeIndex.removeDupePair(globalWordId1, globalWordId2)
RemoveDupePair ==
  /\ pc = "api"
  /\ call.op = "none"
  /\ \E globalWordId1 \in CallerArrays(config.wordList, 0),
        globalWordId2 \in CallerArrays(config.wordList, 1) :
       /\ config' = [config EXCEPT
                       !.wordList.dupeIndex = removeDupePair(@, globalWordId1, globalWordId2)]
       /\ call' = [op |-> "removeDupePair",
                   args |-> <<config.wordList, globalWordId1, globalWordId2>>,
                   returned |-> <<>>]
  /\ UNCHANGED template
  /\ UNCHANGED retryVars
  /\ UNCHANGED attemptVars

\* dupeIndex.getDupesByLength(globalWordId)
GetDupesByLength ==
  /\ pc = "api"
  /\ call.op = "none"
  /\ \E globalWordId \in CallerArrays(config.wordList, 0) :
       call' = [op |-> "getDupesByLength",
                args |-> <<config.wordList, globalWordId>>,
                returned |-> getDupesByLength(config.wordList.dupeIndex, globalWordId)]
  /\ UNCHANGED <<template, config>>
  /\ UNCHANGED retryVars
  /\ UNCHANGED attemptVars

NextDupes ==
  \/ ReplaceShortList
  \/ GetWordIdOrAddHidden
  \/ AddDupePair
  \/ RemoveDupePair
  \/ GetDupesByLength
  \/ CallReturned

SpecDupes == InitDupes /\ [][NextDupes]_vars

(***************************************************************************)
(* A GridConfig built from a template string and rendered with no choices. *)
(* Here `template` is the string itself: the lines of a grid of up to two  *)
(* rows of up to two cells, each a block, an empty cell or a letter (one   *)
(* upper-case, one that is in no word), joined by "\n", as it is or with   *)
(* a line break after it or with its first or last cell missing; or a      *)
(* string of no cells.  The word list holds "ab" and "ba".                 *)
(***************************************************************************)
TemplateCells == {".", "#", "a", "A", "z"}

TemplateStrings ==
  LET grids == UNION {[1 .. h -> [1 .. w -> TemplateCells]] : h \in 1 .. 2, w \in 1 .. 2}
      joined(g) == Concat([y \in 1 .. Len(g) |->
                             IF y < Len(g) THEN Append(g[y], "\n") ELSE g[y]])
  IN  {joined(g) : g \in grids}
        \cup {Append(joined(g), "\n") : g \in grids}
        \cup {SubSeq(joined(g), 1, Len(joined(g)) - 1) : g \in {r \in grids : Len(r) = 2}}
        \cup {Tail(joined(g)) : g \in {r \in grids : Len(r) = 2}}
        \cup {<<>>, <<"\n">>}

\* No GridConfig has been built over the word list.
NoConfigOver(wl) == [NoConfig EXCEPT !.wordList = wl]

InitRender ==
  /\ template \in TemplateStrings
  /\ config = NoConfigOver(replaceList(NewWordList,
                              << [enabled |-> TRUE,
                                  words |-> << << <<"a", "b">>, 50 >>,
                                               << <<"b", "a">>, 50 >> >>] >>))
  /\ call = NoApiCall
  /\ NoSearch
  /\ pc = "api"

\* generateGridConfigFromTemplateString(wordList, template, 40): the
\* GridConfig, or the TypeError thrown on the way.
GenerateGridConfig ==
  /\ pc = "api"
  /\ call.op = "none"
  /\ LET lines == TemplateLines(template)
     IN  IF BuildWordsThrows(lines)
         THEN /\ call' = [op |-> "generateGridConfigFromTemplateString",
                          args |-> <<config.wordList, template, MinScore>>,
                          returned |-> "TypeError"]
              /\ UNCHANGED config
         ELSE /\ config' = generateGridConfigFromTemplateString(config.wordList, lines, MinScore)
              /\ call' = [op |-> "generateGridConfigFromTemplateString",
                          args |-> <<config.wordList, template, MinScore>>,
                          returned |-> "GridConfig"]
  /\ UNCHANGED template
  /\ UNCHANGED retryVars
  /\ UNCHANGED attemptVars

\* renderGrid(gridConfig, []) on the GridConfig just built
RenderGrid ==
  /\ pc = "api"
  /\ call.op = "generateGridConfigFromTemplateString"
  /\ call.returned = "GridConfig"
  /\ call' = [op |-> "renderGrid",
              args |-> <<config, <<>> >>,
              returned |-> renderGrid(config, <<>>)]
  /\ UNCHANGED <<template, config>>
  /\ UNCHANGED retryVars
  /\ UNCHANGED attemptVars

NextRender == GenerateGridConfig \/ RenderGrid

SpecRender == InitRender /\ [][NextRender]_vars

(***************************************************************************)
(* parseWordListFileContents, one line of the file at a time.  call holds  *)
(* the line just read, the state of the parse before it and the state      *)
(* after it.                                                               *)
(***************************************************************************)
\* The longest file the parse is run on, in lines.
MaxLines == 102

\* The lines a file is made of: a scored word, a word without score, two
\* lines whose score is no number, an empty line.
FileLines ==
  { <<"a", "b", ";", "5", "0">>,
    <<"c", "d">>,
    <<"e", "f", ";", "x">>,
    <<"a", "b", ";", "x">>,
    <<>> }

InitParse ==
  /\ template = <<>>
  /\ config = NoConfigOver(NewWordList)
  /\ call = [op |-> "parseWordListFileContents",
             args |-> <<>>,
             returned |-> NewParse]
  /\ NoSearch
  /\ pc = "api"

\* One turn of the loop: the test of errors.length, then the line.
ReadLine ==
  /\ pc = "api"
  /\ call.op = "parseWordListFileContents"
  /\ ~call.returned.returned
  /\ call.returned.linesRead < MaxLines
  /\ ~(Len(call.returned.errors) > ErrorLimit)
  /\ \E line \in FileLines :
       call' = [op |-> "parseWordListFileContents",
                args |-> <<line, call.returned>>,
                returned |-> ParseLine(call.returned, line)]
  /\ UNCHANGED <<template, config>>
  /\ UNCHANGED retryVars
  /\ UNCHANGED attemptVars

\* The loop ends, at the end of the file or at the break, and the entries
\* are returned.
ParseReturns ==
  /\ pc = "api"
  /\ call.op = "parseWordListFileContents"
  /\ ~call.returned.returned
  /\ call' = [call EXCEPT !.returned.returned = TRUE]
  /\ UNCHANGED <<template, config>>
  /\ UNCHANGED retryVars
  /\ UNCHANGED attemptVars

NextParse == ReadLine \/ ParseReturns

SpecParse == InitParse /\ [][NextParse]_vars


(***************************************************************************)
(* Properties of findFill.                                                 *)
(***************************************************************************)
Returned(type) == pc = "done" /\ result.type = type

\* The Word a (slot, word id) pair names.
ChoiceWord(slotId, wordId) ==
  WordOf(config.wordList, At(config.slotConfigs, slotId).length, wordId)

\* The length-W windows of a glyph sequence.
Windows(glyphs, W) == {SubSeq(glyphs, k, k + W - 1) : k \in 1 .. Len(glyphs) - W + 1}

\* Two words the fill must not hold together.
AreDupes(a, b) ==
  \/ a.normalizedString = b.normalizedString
  \/ /\ config.wordList.dupeIndex.windowSize > 0
     /\ Windows(a.glyphs, config.wordList.dupeIndex.windowSize)
          \cap Windows(b.glyphs, config.wordList.dupeIndex.windowSize) # {}

\* Do the words u of slot s and v of slot t agree wherever s crosses t?
Agree(s, u, t, v) ==
  LET crossings == At(config.slotConfigs, s).crossings
  IN  \A c \in 1 .. Len(crossings) :
        (IsCrossing(crossings[c]) /\ crossings[c].otherSlotId = t) =>
          ChoiceWord(s, u).glyphs[c] = ChoiceWord(t, v).glyphs[crossings[c].otherSlotCell + 1]

\* C1: whenever findFill returns Success, the words recorded for two
\* crossing slots have the same glyph at the cell the slots share.
C1_CrossingsAgree ==
  Returned("Success") =>
    \A i, j \in 1 .. Len(result.choices) :
      Agree(result.choices[i].slotId, result.choices[i].wordId,
            result.choices[j].slotId, result.choices[j].wordId)

\* C2: whenever findFill returns Success, no two recorded choices are the
\* same word, and with a dupe window W > 0 no two chosen words share a
\* length-W glyph window.
C2_NoRepeatedWord ==
  Returned("Success") =>
    \A i, j \in 1 .. Len(result.choices) :
      i # j => ~AreDupes(ChoiceWord(result.choices[i].slotId, result.choices[i].wordId),
                         ChoiceWord(result.choices[j].slotId, result.choices[j].wordId))

\* The option ids of a slot, as a set.
OptionIds(slotId) ==
  {At(config.slotOptions, slotId)[k] : k \in 1 .. Len(At(config.slotOptions, slotId))}

\* Some assignment of one word of each slot's initial option list agrees at
\* every crossing and repeats no dupe.
Satisfiable ==
  LET slotIds == 0 .. Len(config.slotConfigs) - 1
      ids == UNION {OptionIds(s) : s \in slotIds}
  IN  \E assignment \in [slotIds -> ids] :
        /\ \A s \in slotIds : assignment[s] \in OptionIds(s)
        /\ \A s, t \in slotIds :
             /\ Agree(s, assignment[s], t, assignment[t])
             /\ s # t => ~AreDupes(ChoiceWord(s, assignment[s]), ChoiceWord(t, assignment[t]))

\* C3: with no deadline and the abort flag clear, findFill returns
\* HardFailure only when no assignment of one initial option to each slot
\* agrees at every crossing and repeats no dupe.
C3_HardFailureOnlyWhenUnsatisfiable ==
  (Returned("HardFailure") /\ timeout = Undefined /\ ~config.abort) => ~Satisfiable

\* The words of a slot still allowed: the fixed word of a fixed slot, else
\* the options not eliminated.
Allowed(ss, slotId) ==
  IF At(ss, slotId).fixedWordId # Undefined
  THEN {At(ss, slotId).fixedWordId}
  ELSE {w \in OptionIds(slotId) : At(At(ss, slotId).eliminations, w) = Undefined}

\* C4: whenever findFill returns Success, the choices list holds exactly one
\* entry for every slot of the grid: the word the search fixed, or the sole
\* surviving word of a slot whose remaining option count is 1.
C4_OneChoicePerSlot ==
  Returned("Success") =>
    \A s \in 0 .. Len(slots) - 1 :
      /\ Cardinality({k \in 1 .. Len(result.choices) : result.choices[k].slotId = s}) = 1
      /\ \A k \in 1 .. Len(result.choices) :
           result.choices[k].slotId = s => result.choices[k].wordId \in Allowed(slots, s)

RECURSIVE SumSeq(_)
SumSeq(q) == IF q = <<>> THEN 0 ELSE Head(q) + SumSeq(Tail(q))

\* C5: between propagation calls, for every slot and every cell of it, the
\* glyph counts of the cell add up to the slot's remainingOptionCount.
C5_GlyphCountsSumToRemaining ==
  pc \in {"search", "backtrack"} =>
    \A i \in 1 .. Len(slots) :
      \A c \in 1 .. Len(slots[i].glyphCountsByCell) :
        SumSeq(slots[i].glyphCountsByCell[c]) = slots[i].remainingOptionCount

\* Every allowed word of every non-fixed slot has, at each crossing, an
\* allowed word of the peer slot with the same glyph at the shared cell.
ArcConsistent(ss) ==
  \A x \in 0 .. Len(ss) - 1 :
    At(ss, x).fixedWordId = Undefined =>
      \A w \in Allowed(ss, x) :
        LET crossings == At(config.slotConfigs, x).crossings
        IN  \A c \in 1 .. Len(crossings) :
              IsCrossing(crossings[c]) =>
                \E v \in Allowed(ss, crossings[c].otherSlotId) :
                  ChoiceWord(x, w).glyphs[c]
                    = ChoiceWord(crossings[c].otherSlotId, v).glyphs[crossings[c].otherSlotCell + 1]

\* The state maintainArcConsistency returns true in: the call succeeded and
\* its eliminations are committed, and the search has not moved on.
AfterCommit == pc = "search" /\ ac.result = "ok"

\* C6: after every propagation call that succeeds and is committed (in
\* Initial, Choice or Elimination mode) the grid is arc-consistent.
C6_ArcConsistentAfterCommit == AfterCommit => ArcConsistent(slots)

\* The GridConfig fill of the cells of a slot.
SlotFill(slotId) == getFill(At(config.slotConfigs, slotId), config.fill, config.width)

\* C7: a committed choice never contradicts a pre-filled cell of its slot:
\* at every cell of the slot that the GridConfig fill sets, the fill is the
\* glyph of the chosen word.
C7_ChoiceMatchesFill ==
  \A k \in 1 .. Len(choices) :
    \A c \in 1 .. Len(SlotFill(choices[k].slotId)) :
      SlotFill(choices[k].slotId)[c] # Undefined =>
        SlotFill(choices[k].slotId)[c]
          = ChoiceWord(choices[k].slotId, choices[k].wordId).glyphs[c]

\* A choice is committed for a slot that has a pre-filled cell and had more
\* than one option.
C7_Witness ==
  \E k \in 1 .. Len(choices) :
    /\ \E c \in 1 .. Len(SlotFill(choices[k].slotId)) :
         SlotFill(choices[k].slotId)[c] # Undefined
    /\ Cardinality(OptionIds(choices[k].slotId)) > 1
    /\ Len(Bucket(config.wordList, At(config.slotConfigs, choices[k].slotId).length))
         > Cardinality(OptionIds(choices[k].slotId))

\* The normalized strings of the words loaded from the sources.
LoadedWords ==
  UNION {{bucket[k].normalizedString : k \in {j \in 1 .. Len(bucket) : ~bucket[j].hidden}}
           : bucket \in {config.wordList.words[L] : L \in 1 .. Len(config.wordList.words)}}

\* C8: on the 2x2 micro grid (a 2-cell across slot crossing a 2-cell down
\* slot) with the word list {ab, cd}, findFill returns HardFailure.
C8_MicroGridHardFailure ==
  (/\ pc = "done"
   /\ template = MicroGrid
   /\ LoadedWords = {<<"a", "b">>, <<"c", "d">>}) => result.type = "HardFailure"

\* C9: every crossing weight is at least 1.0 in every state.
C9_WeightsAtLeastOne ==
  \A i \in 1 .. Len(crossingWeights) : crossingWeights[i] >= WeightScale

\* A failed propagation call has raised a crossing weight above 1.0 and the
\* search goes on.
C9_Witness ==
  /\ pc \in {"search", "backtrack"}
  /\ \E i \in 1 .. Len(crossingWeights) : crossingWeights[i] > WeightScale

\* establishArcConsistency from a call state on, to its return.  The live
\* eliminations the adapter reads do not change during a call.
RECURSIVE RunEstablish(_)
RunEstablish(a) ==
  IF a.result # "running" THEN a
  ELSE RunEstablish(EstablishPass(config, slots, crossingWeights, a))

\* Does an Initial-mode maintainArcConsistency made in the current state
\* succeed with an empty elimination set for every slot?
InitialAgainEliminatesNothing ==
  LET r == RunEstablish(MaintainBegin(config, slots, slotWeights, InitialMode).ac)
  IN  /\ r.result = "ok"
      /\ \A i \in 1 .. Len(r.slotStates) : r.slotStates[i].eliminatedIds = <<>>

\* C10: when a propagation call has succeeded and its eliminations are
\* committed, Initial-mode propagation run again at once succeeds and
\* eliminates nothing.
C10_PropagationIdempotent == AfterCommit => InitialAgainEliminatesNothing

\* The deadline is set and the clock is past it.
DeadlinePassed == timeout # Undefined /\ timeout # 0 /\ now > timeout

\* An iteration of the main loop of findFillForSeed begins (or one begins
\* after findFill has restarted the attempt).
IterationBegins == statistics'.states # statistics.states

RECURSIVE CeilLimit(_)
CeilLimit(n) ==
  IF n = 0 THEN 500 ELSE (CeilLimit(n - 1) * 11 + 9) \div 10

\* C12: the backtrack limit starts at 500 and after each restart is the
\* ceiling of 1.1 times the limit before (500, 550, 605, ...); an attempt
\* after the first is running only because the attempt before it returned
\* ExceededBacktrackLimit.
C12_LimitGrowsByCeil ==
  /\ maxBacktracks = CeilLimit(retryNum)
  /\ (pc = "attempt" /\ retryNum > 0) => result.type = "ExceededBacktrackLimit"

\* The cell of the template in column x and row y, "#" outside the grid.
CellAt(lines, x, y) ==
  IF y >= 0 /\ y < Len(lines) /\ x >= 0 /\ x < Len(lines[1])
  THEN lines[y + 1][x + 1] ELSE "#"

\* One step along a direction.
StepOf(direction) == IF direction = Across THEN <<1, 0>> ELSE <<0, 1>>

\* The slot covers a maximal run: its cells hold no block, and the cells
\* just before its first and just after its last are blocks or outside.
IsMaximalRun(lines, slot) ==
  LET d == StepOf(slot.direction)
      x0 == slot.startCell[1]
      y0 == slot.startCell[2]
  IN  /\ slot.length >= 1
      /\ \A i \in 0 .. slot.length - 1 : CellAt(lines, x0 + i * d[1], y0 + i * d[2]) # "#"
      /\ CellAt(lines, x0 - d[1], y0 - d[2]) = "#"
      /\ CellAt(lines, x0 + slot.length * d[1], y0 + slot.length * d[2]) = "#"

\* Every maximal run of at least two cells of the template.
LongRuns(lines) ==
  {slot \in [startCell : (0 .. Len(lines[1]) - 1) \X (0 .. Len(lines) - 1),
             length : 2 .. Max2(Len(lines), Len(lines[1])),
             direction : {Across, Down}] : IsMaximalRun(lines, slot)}

\* Does slot a come before slot b: across before down, across slots by row
\* then column, down slots by column then row.
SlotBefore(a, b) ==
  IF a.direction # b.direction THEN a.direction = Across
  ELSE IF a.direction = Across
       THEN \/ a.startCell[2] < b.startCell[2]
            \/ a.startCell[2] = b.startCell[2] /\ a.startCell[1] < b.startCell[1]
       ELSE \/ a.startCell[1] < b.startCell[1]
            \/ a.startCell[1] = b.startCell[1] /\ a.startCell[2] < b.startCell[2]

CrossingsOf(slotConfigs) ==
  {<<s, i, At(At(slotConfigs, s).crossings, i)>> :
     <<s, i>> \in {p \in Indices(slotConfigs) \X (0 .. MaxCells) :
                    /\ p[2] < At(slotConfigs, p[1]).length
                    /\ IsCrossing(At(At(slotConfigs, p[1]).crossings, p[2]))}}

\* C14: the crossing table is reciprocal.  When slot s at cell i crosses
\* slot t at cell j with crossing id k, slot t at cell j crosses slot s at
\* cell i with the same id k, and s and t run in different directions.
C14_CrossingsReciprocal ==
  call.op = "generateSlotConfigs" =>
    LET slotConfigs == call.returned.slotConfigs
    IN  \A c \in CrossingsOf(slotConfigs) :
          LET t == c[3].otherSlotId
              j == c[3].otherSlotCell
          IN  /\ t \in Indices(slotConfigs)
              /\ j \in 0 .. At(slotConfigs, t).length - 1
              /\ At(At(slotConfigs, t).crossings, j) =
                   [otherSlotId |-> c[1], otherSlotCell |-> c[2],
                    crossingId |-> c[3].crossingId]
              /\ At(slotConfigs, t).direction # At(slotConfigs, c[1]).direction

\* The open 3x3 grid: nine crossings, most at different cell indices of the
\* two slots.
C14_Witness ==
  /\ call.op = "generateSlotConfigs"
  /\ Len(template) = 3 /\ Len(template[1]) = 3
  /\ Cardinality(CrossingsOf(call.returned.slotConfigs)) = 18
  /\ \E c \in CrossingsOf(call.returned.slotConfigs) : c[2] # c[3].otherSlotCell

\* The cells of the template that lie in an across run and in a down run of
\* two cells or more.
CrossedCells(lines) ==
  {loc \in (0 .. Len(lines[1]) - 1) \X (0 .. Len(lines) - 1) :
     /\ CellAt(lines, loc[1], loc[2]) # "#"
     /\ CellAt(lines, loc[1] - 1, loc[2]) # "#" \/ CellAt(lines, loc[1] + 1, loc[2]) # "#"
     /\ CellAt(lines, loc[1], loc[2] - 1) # "#" \/ CellAt(lines, loc[1], loc[2] + 1) # "#"}

\* The crossing ids met when walking the slots in id order and each slot's
\* cells in order.
RECURSIVE IdsMet(_, _)
IdsMet(slotConfigs, n) ==
  IF n = 0 THEN <<>>
  ELSE LET crossings == SelectSeq(slotConfigs[n].crossings, IsCrossing)
       IN  IdsMet(slotConfigs, n - 1) \o [i \in 1 .. Len(crossings) |-> crossings[i].crossingId]

\* C15: crossing ids are dense and unique.  crossingCount is the number of
\* cells lying in both an across and a down slot; the ids in use are exactly
\* 0 .. crossingCount - 1; walking the slots in id order, each id that is met
\* for the first time is the next unused number; and each id is held by
\* exactly two (slot, cell) entries, the two sides of one crossing.
C15_CrossingIdsDense ==
  call.op = "generateSlotConfigs" =>
    LET slotConfigs == call.returned.slotConfigs
        crossingCount == call.returned.crossingCount
        met == IdsMet(slotConfigs, Len(slotConfigs))
        all == CrossingsOf(slotConfigs)
    IN  /\ crossingCount = Cardinality(CrossedCells(template))
        /\ {met[n] : n \in 1 .. Len(met)} = 0 .. crossingCount - 1
        /\ \A n \in 1 .. Len(met) :
             \/ \E m \in 1 .. n - 1 : met[m] = met[n]
             \/ met[n] = Cardinality({met[m] : m \in 1 .. n - 1})
        /\ \A k \in 0 .. crossingCount - 1 :
             LET holders == {c \in all : c[3].crossingId = k}
             IN  /\ Cardinality(holders) = 2
                 /\ \A c \in holders :
                      <<c[3].otherSlotId, c[3].otherSlotCell>> \in
                        {<<d[1], d[2]>> : d \in holders \ {c}}

\* A grid with five crossed cells in three across and two down slots, where
\* the down slots meet again ids the across slots allocated.
C15_Witness ==
  /\ call.op = "generateSlotConfigs"
  /\ template = << <<".", ".", ".">>, <<"#", ".", ".">>, <<".", ".", "#">> >>
  /\ call.returned.crossingCount = 5

\* Is seq a strictly increasing sequence of numbers?
Increasing(seq) == \A m, n \in 1 .. Len(seq) : m < n => seq[m] < seq[n]

HasEmptyCell(entryFill) == \E i \in 1 .. Len(entryFill) : entryFill[i] = Undefined

\* C16: for an entry fill with at least one empty cell, generateSlotOptions
\* returns, in bucket order, exactly the ids w of the bucket of the fill's
\* length such that w matches every filled cell and (w is in the allow-set,
\* or w is not hidden, scores at least minScore and matches the pattern if
\* there is one); an absent bucket gives the empty list.  The word list is
\* left as it was.
C16_OptionsOfPartialFill ==
  (call.op = "generateSlotOptions" /\ HasEmptyCell(call.args[2])) =>
    LET wl == call.args[1]
        entryFill == call.args[2]
        minScore == call.args[3]
        pattern == call.args[4]
        allowed == call.args[5]
        L == Len(entryFill)
        returned == call.returned
        wanted ==
          IF L >= Len(wl.words) THEN {}
          ELSE {w \in Indices(At(wl.words, L)) :
                  LET word == At(At(wl.words, L), w)
                  IN  /\ \A i \in 1 .. L :
                           entryFill[i] # Undefined => word.glyphs[i] = entryFill[i]
                      /\ \/ allowed.present /\ w \in allowed.ids
                         \/ /\ ~word.hidden
                            /\ word.score >= minScore
                            /\ ~pattern.present
                                 \/ word.normalizedString \in pattern.matches}
    IN  /\ {returned[n] : n \in 1 .. Len(returned)} = wanted
        /\ Increasing(returned)
        /\ config.wordList = wl

\* A hidden word and a low-scoring word are returned because they are in
\* the allow-set, although the pattern and the minimum score exclude them.
C16_Witness ==
  /\ call.op = "generateSlotOptions"
  /\ HasEmptyCell(call.args[2])
  /\ Len(call.args[2]) = 2
  /\ call.args[5].present
  /\ call.args[4].present
  /\ \E n \in 1 .. Len(call.returned) :
       LET word == At(At(call.args[1].words, 2), call.returned[n])
       IN  word.hidden /\ word.normalizedString \notin call.args[4].matches

\* The ids of the entries of bucket L of wl whose normalized string is str.
EntriesFor(wl, L, str) ==
  IF L >= Len(wl.words) THEN {}
  ELSE {w \in Indices(At(wl.words, L)) : At(At(wl.words, L), w).normalizedString = str}

\* Every entry of before is still at its place in after.
EntriesKept(before, after) ==
  /\ Len(after.words) >= Len(before.words)
  /\ \A L \in Indices(before.words) :
       /\ Len(At(after.words, L)) >= Len(At(before.words, L))
       /\ SubSeq(At(after.words, L), 1, Len(At(before.words, L))) = At(before.words, L)

\* C17: for an entry fill whose every cell is filled, generateSlotOptions
\* returns exactly one id: that of an existing entry of the bucket whose
\* normalized string is the filled letters, and then nothing is appended;
\* or, when there is none, that of a hidden entry with score 0 appended for
\* the letters, the only entry added.  A second call with the same fill
\* returns the same id and appends nothing, and no existing entry moves.
C17_OptionOfCompleteFill ==
  (call.op = "generateSlotOptions" /\ ~HasEmptyCell(call.args[2])) =>
    LET before == call.args[1]
        entryFill == call.args[2]
        after == config.wordList
        L == Len(entryFill)
        letters == [i \in 1 .. L |-> At(before.glyphs, entryFill[i])]
        known == EntriesFor(before, L, letters)
        again == generateSlotOptions(after, entryFill, call.args[3], call.args[4],
                                     call.args[5])
    IN  /\ Len(call.returned) = 1
        /\ EntriesKept(before, after)
        /\ IF known # {}
           THEN /\ call.returned[1] \in known
                /\ after = before
           ELSE /\ call.returned[1] = Len(Bucket(before, L))
                /\ EntryCount(after.words) = EntryCount(before.words) + 1
                /\ At(At(after.words, L), call.returned[1]) =
                     NewWord(letters, letters, entryFill, 0, TRUE)
        /\ again.options = call.returned
        /\ again.wordList = after

\* A complete two-letter fill that spells a string the list does not hold,
\* next to an entry it does hold: a hidden entry is appended as id 1.
C17_Witness ==
  /\ call.op = "generateSlotOptions"
  /\ ~HasEmptyCell(call.args[2])
  /\ Len(call.args[2]) = 2
  /\ EntryCount(config.wordList.words) = EntryCount(call.args[1].words) + 1
  /\ call.returned = <<1>>

\* Every entry of the word list, as (length, id, word).
AllEntries(wl) ==
  UNION {{<<L, w, At(At(wl.words, L), w)>> : w \in Indices(At(wl.words, L))} :
           L \in Indices(wl.words)}

\* C18: after any sequence of replaceList and getWordIdOrAddHidden calls on
\* one WordList, every normalized string is held by at most one entry, and
\* wordIdByString maps the normalized string of every entry words[L][i] to i.
C18_OneEntryPerString ==
  LET entries == AllEntries(config.wordList)
  IN  /\ \A e, f \in entries :
           e[3].normalizedString = f[3].normalizedString => e = f
      /\ \A e \in entries :
           /\ MapHas(config.wordList.wordIdByString, e[3].normalizedString)
           /\ config.wordList.wordIdByString[e[3].normalizedString] = e[2]

\* The [canonical, score] pairs of the enabled sources, in source order.
EnabledWords(sourceConfigs) ==
  Concat([n \in 1 .. Len(sourceConfigs) |->
            IF sourceConfigs[n].enabled THEN sourceConfigs[n].words ELSE <<>>])

\* The entries of after that before does not hold.
Appended(before, after) ==
  {e \in AllEntries(after) :
     e[1] >= Len(before.words) \/ e[2] >= Len(At(before.words, e[1]))}

\* C19: within one replaceList call, a normalized string that occurs in
\* several enabled sources, or several times in one, is stored once, with
\* the canonical form and score of its first occurrence in source order;
\* disabled sources and blank words contribute nothing.
C19_FirstOccurrenceWins ==
  call.op = "replaceList" =>
    LET before == call.args[1]
        after == config.wordList
        occurrences == EnabledWords(call.args[2])
        strings == {normalizeWord(occurrences[n][1]) : n \in 1 .. Len(occurrences)} \ {<<>>}
        first(str) ==
          CHOOSE n \in 1 .. Len(occurrences) :
            /\ normalizeWord(occurrences[n][1]) = str
            /\ \A m \in 1 .. n - 1 : normalizeWord(occurrences[m][1]) # str
        added == Appended(before, after)
    IN  /\ EntriesKept(before, after)
        /\ {e[3].normalizedString : e \in added} = strings
        /\ Cardinality(added) = Cardinality(strings)
        /\ \A e \in added :
             /\ e[3].canonicalString = occurrences[first(e[3].normalizedString)][1]
             /\ e[3].score = occurrences[first(e[3].normalizedString)][2]
             /\ ~e[3].hidden

\* A disabled source holding "ab" with score 50, then an enabled source
\* holding "Ab" with score 30: the entry stored is "Ab" with score 30.
C19_Witness ==
  /\ call.op = "replaceList"
  /\ Len(call.args[2]) = 2
  /\ ~call.args[2][1].enabled
  /\ call.args[2][1].words = << << <<"a", "b">>, 50 >> >>
  /\ \E e \in Appended(call.args[1], config.wordList) :
       e[3].canonicalString = <<"A", "b">> /\ e[3].score = 30

\* C20: after any sequence of word additions, glyph ids are dense from 0,
\* glyphs and glyphIdByChar are inverse to each other, a character seen
\* before keeps its id (every word's glyph ids are the ids of its
\* characters), and every word of bucket L has exactly L glyph ids, all
\* valid.
C20_GlyphsInverse ==
  LET wl == config.wordList
  IN  /\ \A id \in Indices(wl.glyphs) :
           /\ MapHas(wl.glyphIdByChar, At(wl.glyphs, id))
           /\ wl.glyphIdByChar[At(wl.glyphs, id)] = id
      /\ \A ch \in DOMAIN wl.glyphIdByChar :
           /\ wl.glyphIdByChar[ch] \in Indices(wl.glyphs)
           /\ At(wl.glyphs, wl.glyphIdByChar[ch]) = ch
      /\ \A e \in AllEntries(wl) :
           /\ Len(e[3].glyphs) = e[1]
           /\ Len(e[3].normalizedString) = e[1]
           /\ \A i \in 1 .. e[1] :
                /\ e[3].glyphs[i] \in Indices(wl.glyphs)
                /\ At(wl.glyphs, e[3].glyphs[i]) = e[3].normalizedString[i]

\* Three words in two buckets that share characters: three glyphs.
C20_Witness ==
  /\ EntryCount(config.wordList.words) = 3
  /\ Len(config.wordList.glyphs) = 3
  /\ Len(At(config.wordList.words, 1)) = 1
  /\ Len(At(config.wordList.words, 2)) = 2
  /\ call.op = "replaceList"

\* C21: with window size W > 0, every word of the list with at least W
\* glyphs, loaded by replaceList or added as a hidden word, is registered in
\* the dupe index under each of its length-W glyph windows.
C21_EveryWordRegistered ==
  LET wl == config.wordList
      W == wl.dupeIndex.windowSize
  IN  W > 0 =>
        \A e \in AllEntries(wl) : \A window \in Windows(e[3].glyphs, W) :
          /\ MapHas(wl.dupeIndex.groupKeyBySubstring, window)
          /\ LET group == At(wl.dupeIndex.groups, wl.dupeIndex.groupKeyBySubstring[window])
             IN  \E n \in 1 .. Len(group) : group[n].value = <<e[1], e[2]>>

\* The [length, wordId] values a result of getDupesByLength holds.
DupeValues(dupesByLength) ==
  UNION {{<<dupesByLength[n].key, wordId>> : wordId \in dupesByLength[n].value} :
           n \in 1 .. Len(dupesByLength)}

\* The [length, wordId] values of the words DupeIndex.addWord has registered.
Registered(dupeIndex) ==
  {dupeIndex.groupKeysByWord[n].key.value : n \in 1 .. Len(dupeIndex.groupKeysByWord)}

\* C22: with window size W > 0, when two registered words a and b share a
\* length-W glyph window, the dupes returned for a, queried by any array
\* equal to a's [length, wordId], contain b (and so those for b contain a);
\* the result always contains the queried word itself.
C22_WindowDupesListed ==
  call.op = "getDupesByLength" =>
    LET wl == call.args[1]
        a == call.args[2].value
        W == wl.dupeIndex.windowSize
        glyphsOf(v) == At(At(wl.words, v[1]), v[2]).glyphs
    IN  /\ a \in DupeValues(call.returned)
        /\ a \in Registered(wl.dupeIndex) =>
             \A b \in Registered(wl.dupeIndex) :
               Windows(glyphsOf(a), W) \cap Windows(glyphsOf(b), W) # {}
                 => b \in DupeValues(call.returned)

\* The arrays equal to value that a query can pass: the held ones and a new
\* one, as getDupes builds it.
ArraysOf(dupeIndex, value) ==
  {g \in HeldArrays(dupeIndex) : g.value = value} \cup {NewArray(dupeIndex, value)}

\* Does every query for x list y?
Lists(dupeIndex, x, y) ==
  \A g \in ArraysOf(dupeIndex, x) : y \in DupeValues(getDupesByLength(dupeIndex, g))

\* Does some query for x list y?
MayList(dupeIndex, x, y) ==
  \E g \in ArraysOf(dupeIndex, x) : y \in DupeValues(getDupesByLength(dupeIndex, g))

\* C23: explicit dupe pairs are symmetric and reversible.  After
\* addDupePair(a, b) the dupes of a contain b and the dupes of b contain a;
\* adding a pair that is already listed records nothing new; after
\* removeDupePair(a, b), in either argument order, neither lists the other
\* unless the two share a window (or are the same word).
C23_DupePairsSymmetric ==
  LET before == call.args[1].dupeIndex
      after == config.wordList.dupeIndex
      a == call.args[2].value
      b == call.args[3].value
      grouped ==
        \E n \in 1 .. Len(after.groups) :
          {a, b} \subseteq {after.groups[n][k].value : k \in 1 .. Len(after.groups[n])}
      paired(x, y) ==
        \E n \in 1 .. Len(before.extraDupesByWord) :
          /\ before.extraDupesByWord[n].key.value = x
          /\ \E k \in 1 .. Len(before.extraDupesByWord[n].value) :
               before.extraDupesByWord[n].value[k].value = y
  IN  /\ (call.op = "addDupePair" /\ a # b) =>
           /\ Lists(after, a, b)
           /\ Lists(after, b, a)
           /\ (paired(a, b) /\ paired(b, a)) =>
                 after.extraDupesByWord = before.extraDupesByWord
      /\ (call.op = "removeDupePair" /\ a # b) =>
           (grouped \/ (~MayList(after, a, b) /\ ~MayList(after, b, a)))

\* Do all lines of the template hold the same number of cells, at least one?
Rectangular(templateString) ==
  LET lines == TemplateLines(templateString)
  IN  \A y \in 1 .. Len(lines) : Len(lines[y]) = Len(lines[1]) /\ Len(lines[y]) > 0

\* C24: round trip.  For every rectangular template, building a GridConfig
\* and rendering its fill with no choices yields the template string again,
\* blocks as "#", empty cells as "." and pre-filled letters unchanged, up to
\* trailing whitespace.
C24_RenderRoundTrip ==
  (call.op = "renderGrid" /\ Rectangular(template)) =>
    Trim(call.returned) = Trim(template)

\* C25: every template cell whose character is neither "." nor "#" is a
\* pre-filled glyph of the GridConfig fill, not an empty cell, and every
\* word in the option list of a slot through that cell has that letter
\* there, also when no word of the word list holds the character.
C25_LettersPrefilled ==
  (/\ call.op = "generateGridConfigFromTemplateString"
   /\ call.returned = "GridConfig"
   /\ Rectangular(template)) =>
    LET chars == Concat(TemplateLines(template))
    IN  \A c \in Indices(chars) :
          At(chars, c) \notin {".", "#"} =>
            /\ At(config.fill, c) # Undefined
            /\ At(config.wordList.glyphs, At(config.fill, c)) = ToLowerCase(At(chars, c))
            /\ \A s \in Indices(config.slotConfigs) :
                 LET idxs == cellFillIndices(At(config.slotConfigs, s), config.width)
                     options == At(config.slotOptions, s)
                 IN  \A i \in 1 .. Len(idxs) : \A k \in 1 .. Len(options) :
                       idxs[i] = c =>
                         LET word == WordOf(config.wordList, Len(idxs), options[k])
                         IN  At(config.wordList.glyphs, word.glyphs[i])
                               = ToLowerCase(At(chars, c))

\* C26: building a GridConfig from an empty template, or from a template
\* whose rows have different widths, reports an error to the caller and
\* produces no GridConfig.
C26_BadTemplateRejected ==
  (/\ call.op = "generateGridConfigFromTemplateString"
   /\ ~Rectangular(template)) =>
    (call.returned = "TypeError" /\ config = NoConfigOver(call.args[1]))

\* C27: parsing collects at most 100 errors; a line of a new word with an
\* invalid score adds one error and no entry; a valid line of a new word
\* read after errors still adds its entry; and no line is read once 100
\* errors have been collected.
C27_AtMostHundredErrors ==
  (call.op = "parseWordListFileContents" /\ call.args # <<>>) =>
    LET line == call.args[1]
        before == call.args[2]
        after == call.returned
        known(word) == \E i \in 1 .. Len(before.entries) :
                         before.entries[i].normalized = word
    IN  /\ Len(after.errors) <= 100
        /\ Len(before.errors) < 100
        /\ line = <<"e", "f", ";", "x">> =>
             /\ Len(after.errors) = Len(before.errors) + 1
             /\ after.entries = before.entries
        /\ (line = <<"c", "d">> /\ ~known(<<"c", "d">>)) =>
             /\ after.errors = before.errors
             /\ Len(after.entries) = Len(before.entries) + 1
             /\ after.entries[Len(after.entries)].normalized = <<"c", "d">>
             /\ after.entries[Len(after.entries)].score = 50
        /\ (line = <<"a", "b", ";", "5", "0">> /\ ~known(<<"a", "b">>)) =>
             /\ after.errors = before.errors
             /\ Len(after.entries) = Len(before.entries) + 1
             /\ after.entries[Len(after.entries)].score = 50

ChoiceCallFailed ==
  /\ call.op = "maintainArcConsistency"
  /\ mode.type = "Choice"
  /\ pc = "backtrack"

\* C29: after a maintainArcConsistency call has returned false, every
\* slot's eliminations, remainingOptionCount, glyphCountsByCell and fixed
\* word are what they were before the call.
C29_FailedCallLeavesSlots ==
  ChoiceCallFailed =>
    \A i \in 1 .. Len(slots) :
      LET before == call.args[1][i]
      IN  /\ slots[i].eliminations = before.eliminations
          /\ slots[i].remainingOptionCount = before.remainingOptionCount
          /\ slots[i].glyphCountsByCell = before.glyphCountsByCell
          /\ slots[i].fixedWordId = before.fixedWordId

\* The backtracking loop has just popped a choice and cleared it, and goes
\* on to eliminate it.
ChoicePopped ==
  /\ pc = "backtrack"
  /\ mode.type = "Elimination"

\* C30: after the choice of slot P is popped, P is not fixed, no slot holds
\* an elimination blamed on P, and every slot's remainingOptionCount is the
\* number of its initial options that are not marked eliminated.
C30_PopUndoesChoice ==
  ChoicePopped =>
    LET P == undoingChoice.slotId
    IN  /\ At(slots, P).fixedWordId = Undefined
        /\ \A i \in 1 .. Len(slots) :
             /\ \A k \in 1 .. Len(slots[i].eliminations) : slots[i].eliminations[k] # P
             /\ LET options == At(config.slotOptions, slots[i].id)
                    live == {o \in 1 .. Len(options) :
                               At(slots[i].eliminations, options[o]) = Undefined}
                IN  slots[i].remainingOptionCount = Cardinality(live)

\* The call's state when the pass about to be made reaches its singleton
\* propagation: the queued cells of the picked slot processed, the singleton
\* flags read and cleared.
BeforeSingletons ==
  LET queuedSlotId == ScanQueued(ac, 0, Undefined, Priority(1, 0))
      state == At(ac.slotStates, queuedSlotId)
      crossings == At(config.slotConfigs, queuedSlotId).crossings
      weightOf == [c \in 1 .. Len(crossings) |->
                     IF IsCrossing(crossings[c])
                     THEN At(crossingWeights, crossings[c].crossingId)
                     ELSE 0]
      a1 == [ac EXCEPT !.slotStates[queuedSlotId + 1].queued = FALSE,
                       !.slotStates[queuedSlotId + 1].queuedCellIdxs = <<>>]
      a2 == ProcessCells(config, slots, a1, crossingWeights, queuedSlotId,
                         SortByWeightDesc(state.queuedCellIdxs, <<>>, weightOf))
  IN  [a |-> [a2 EXCEPT !.slotStates =
                [i \in 1 .. Len(a2.slotStates) |->
                   [a2.slotStates[i] EXCEPT !.needsSingletonPropagation = FALSE]]],
       singletonSlots |-> {i \in 0 .. Len(a2.slotStates) - 1 :
                            At(a2.slotStates, i).needsSingletonPropagation}]

\* A pass of the main loop is about to be made and reaches its singleton
\* propagation.
SingletonsDue ==
  /\ pc = "establish"
  /\ ac.result = "running"
  /\ ScanQueued(ac, 0, Undefined, Priority(1, 0)) # Undefined
  /\ BeforeSingletons.a.result = "running"

\* C31: singleton propagation for a slot S whose unique surviving word is u
\* eliminates nothing from S itself, and what it eliminates from another
\* slot is a dupe of u in a slot that is not fixed.
C31_SingletonKeepsOwnWord ==
  SingletonsDue =>
    \A S \in BeforeSingletons.singletonSlots :
      LET a == BeforeSingletons.a
          u == getSingleOption(config, S, At(a.slotStates, S).eliminatedIds)
          b == ProcessSingletons(config, slots, a, <<S>>)
      IN  /\ At(b.slotStates, S).eliminatedIds = At(a.slotStates, S).eliminatedIds
          /\ At(b.slotStates, S).optionCount = At(a.slotStates, S).optionCount
          /\ b.result = "fail" => At(b.slotStates, S).optionCount > 0
          /\ \A X \in 0 .. Len(b.slotStates) - 1 :
               \A k \in 1 .. Len(At(b.slotStates, X).eliminatedIds) :
                 k > Len(At(a.slotStates, X).eliminatedIds) =>
                   /\ X # S
                   /\ ~At(a.fixedSlots, X)
                   /\ AreDupes(ChoiceWord(X, At(b.slotStates, X).eliminatedIds[k]),
                               ChoiceWord(S, u))

\* C32: when establishArcConsistency returns without failure, no slot has
\* queued cell indices left and no slot has needsSingletonPropagation set.
C32_SuccessOnlyAtQuiescence ==
  (pc = "establish" /\ ac.result = "ok") =>
    \A i \in 1 .. Len(ac.slotStates) :
      /\ ~(ac.slotStates[i].queued /\ ac.slotStates[i].queuedCellIdxs # <<>>)
      /\ ~ac.slotStates[i].needsSingletonPropagation


\* The state in which findFillForSeed enters its search loop for the first
\* time in an attempt.
AttemptStarts == pc = "search" /\ statistics.states = 0

PreviousSlotInReach ==
  /\ pc = "search"
  /\ call.op = "chooseNextSlot"
  /\ call.returned # Undefined
  /\ At(slots, call.returned).fixedWordId = Undefined
  /\ At(slots, call.returned).remainingOptionCount > 1
  /\ LET weights == calculateSlotWeights(config, slots, crossingWeights)
         priorityOf == [i \in 1 .. Len(slots) |->
                          Priority(slots[i].remainingOptionCount, weights[i])]
         best == chooseNextSlot(slots, weights, Undefined).slotId
     IN  WithinThreshold(At(priorityOf, call.returned), At(priorityOf, best))

\* C34: a search step that finds the previously chosen slot eligible and
\* within the threshold of the best priority chooses that slot again and
\* increments restrictedBranchings.
C34_AdaptiveBranching ==
  [][(PreviousSlotInReach /\ pc' = "establish")
       => /\ mode'.choice.slotId = call.returned
          /\ statistics'.restrictedBranchings = statistics.restrictedBranchings + 1]_vars


\* The slot may be picked by the search: not fixed, more than one option.
Eligible(slotId) ==
  /\ At(slots, slotId).fixedWordId = Undefined
  /\ At(slots, slotId).remainingOptionCount > 1

\* remainingOptionCount / slotWeight of the slot under the weights of the
\* search step that starts in this state.
StepPriority(slotId) ==
  Priority(At(slots, slotId).remainingOptionCount,
           At(calculateSlotWeights(config, slots, crossingWeights), slotId))

\* The options of the slot that are not eliminated and stand before wordId
\* in its initial option list.
FreeBefore(slotId, wordId) ==
  LET options == At(config.slotOptions, slotId)
  IN  {k \in 1 .. Len(options) :
         /\ At(At(slots, slotId).eliminations, options[k]) = Undefined
         /\ \E j \in k + 1 .. Len(options) : options[j] = wordId}

\* C35: the slot a search step picks is not fixed, has more than one
\* remaining option and fewer than 3 eligible slots have a lower
\* remaining / slotWeight; the word it tries is in the slot's initial
\* option list, not eliminated, with fewer than 3 not-eliminated words
\* before it; and the step reports success only when no slot is eligible.
C35_SearchStepPicks ==
  [][/\ (pc = "search" /\ pc' = "establish")
          => LET slotId == mode'.choice.slotId
                 wordId == mode'.choice.wordId
             IN  /\ Eligible(slotId)
                 /\ Cardinality({other \in 0 .. Len(slots) - 1 :
                                   /\ Eligible(other)
                                   /\ PriorityLess(StepPriority(other),
                                                   StepPriority(slotId))}) < 3
                 /\ wordId \in OptionIds(slotId)
                 /\ At(At(slots, slotId).eliminations, wordId) = Undefined
                 /\ Cardinality(FreeBefore(slotId, wordId)) < 3
     /\ (pc = "search" /\ result'.type = "Success")
          => \A slotId \in 0 .. Len(slots) - 1 : ~Eligible(slotId)]_vars

\* A search step has picked a word that is not the first of its slot's
\* initial option list, passing over a slot that is not fixed and has one
\* remaining option.
C35_Witness ==
  /\ pc = "establish"
  /\ mode.type = "Choice"
  /\ mode.choice.wordId # At(config.slotOptions, mode.choice.slotId)[1]
  /\ \E k \in 1 .. Len(slots) :
       /\ slots[k].id # mode.choice.slotId
       /\ slots[k].fixedWordId = Undefined
       /\ slots[k].remainingOptionCount = 1


SomeSlotWithoutOptions ==
  \E i \in 1 .. Len(config.slotOptions) : config.slotOptions[i] = <<>>

\* C37: when some slot's initial option list is empty, the Initial call
\* fails before its first pass with an empty weight-update map, and findFill
\* returns HardFailure with no choice made, no search state counted and
\* every crossing weight still 1.0.
C37_EmptyOptionsHardFailure ==
  SomeSlotWithoutOptions =>
    /\ \/ /\ pc = "establish"
          /\ mode.type = "Initial"
          /\ ac.result = "fail"
          /\ ac.weightUpdates = << >>
       \/ /\ pc = "done"
          /\ result.type = "HardFailure"
    /\ choices = <<>>
    /\ statistics.states = 0
    /\ \A c \in 1 .. Len(crossingWeights) : crossingWeights[c] = WeightScale


\* The choice stack holds a choice for the slot.
OnStack(slotId) == \E k \in 1 .. Len(choices) : choices[k].slotId = slotId

\* findFill is between two maintainArcConsistency calls of its first
\* attempt, or has returned from it.
FirstAttemptAtRest ==
  /\ retryNum = 0
  /\ pc \in {"search", "backtrack", "done"}
  /\ result.type # "TypeError"

\* C38: until the first restart, every live elimination is blamed on null
\* or on the slot of a choice on the choice stack, a slot has a fixed word
\* exactly when the stack holds the choice of that word for it, and an
\* elimination with blame null is made only while the stack is empty.
C38_BlameFollowsStack ==
  /\ [](FirstAttemptAtRest =>
          \A i \in 1 .. Len(slots) :
            /\ \A k \in 1 .. Len(slots[i].eliminations) :
                 \/ slots[i].eliminations[k] \in {Undefined, Null}
                 \/ OnStack(slots[i].eliminations[k])
            /\ slots[i].fixedWordId # Undefined
                 <=> \E k \in 1 .. Len(choices) :
                       choices[k] = [slotId |-> slots[i].id,
                                     wordId |-> slots[i].fixedWordId])
  /\ [][(retryNum = 0 /\ retryNum' = 0 /\ Len(slots') = Len(slots))
          => \A i \in 1 .. Len(slots) :
               \A k \in 1 .. Len(slots[i].eliminations) :
                 (slots[i].eliminations[k] # Null /\ slots'[i].eliminations[k] = Null)
                   => choices = <<>>]_vars

\* The first attempt, after a backtrack, rests with a choice on the stack,
\* an elimination blamed on its slot and an elimination blamed on null.
C38_Witness ==
  /\ FirstAttemptAtRest
  /\ pc = "search"
  /\ statistics.backtracks > 0
  /\ choices # <<>>
  /\ \E i \in 1 .. Len(slots) : \E k \in 1 .. Len(slots[i].eliminations) :
       OnStack(slots[i].eliminations[k])
  /\ \E i \in 1 .. Len(slots) : \E k \in 1 .. Len(slots[i].eliminations) :
       slots[i].eliminations[k] = Null


\* The words the establishArcConsistency call in progress has eliminated.
EliminatedSoFar(a) ==
  SumSeq([i \in 1 .. Len(a.slotStates) |-> Len(a.slotStates[i].eliminatedIds)])

\* C39: every pass of the main loop of establishArcConsistency that does
\* not end the call takes one slot off the queue or eliminates one more
\* word, and every call returns success or failure.
C39_EstablishTerminates ==
  /\ []((pc = "establish" /\ ac.result = "running")
          => LET after == EstablishPass(config, slots, crossingWeights, ac)
             IN  after.result = "running"
                   => \/ \E i \in 1 .. Len(ac.slotStates) :
                           ac.slotStates[i].queued /\ ~after.slotStates[i].queued
                      \/ EliminatedSoFar(after) > EliminatedSoFar(ac))
  /\ (pc = "establish" /\ ac.result = "running") ~> (ac.result \in {"ok", "fail"})

\* A Choice call has returned success after eliminating words.
C39_Witness ==
  /\ pc = "establish"
  /\ mode.type = "Choice"
  /\ ac.result = "ok"
  /\ EliminatedSoFar(ac) > 0


\* C40: without deadline and with the abort flag clear, what findFill
\* returns is Success or HardFailure.
C40_ReturnsSuccessOrHardFailure ==
  HasReturned => result.type \in {"Success", "HardFailure"}

====
